---- MODULE Spec2Model ----
(***************************************************************************)
(* Model of the modelknight policy engine: the rule store (store.rs), the  *)
(* rule compiler (compile.rs), the policy document model (policy.rs) and   *)
(* the eval handler (api.rs).                                              *)
(*                                                                         *)
(* Strings are sequences of one-character strings, so that byte length is  *)
(* Len and String::cmp is the lexicographic order on byte values (Ord).    *)
(* Option<T> is a sequence of length 0 (None) or 1 (Some).                 *)
(***************************************************************************)
EXTENDS Integers, Sequences, FiniteSets, TLC

\* ------------------------------------------------------------------------
\* Bounds of the model
\* ------------------------------------------------------------------------
\* number of calls (apply_policy, get_policy, eval) made in one behaviour
MaxCalls == 2

\* ------------------------------------------------------------------------
\* Strings
\* ------------------------------------------------------------------------
None == <<>>
Some(x) == <<x>>

\* byte values of the characters the model's strings are made of (ASCII)
Ord(c) ==
    CASE c = " " -> 32
      [] c = "(" -> 40
      [] c = "+" -> 43
      [] c = "-" -> 45
      [] c = "." -> 46
      [] c = "0" -> 48
      [] c = "1" -> 49
      [] c = "2" -> 50
      [] c = "@" -> 64
      [] c = "A" -> 65
      [] c = "B" -> 66
      [] c = "C" -> 67
      [] c = "E" -> 69
      [] c = "X" -> 88
      [] c = "x" -> 120
      [] c = "a" -> 97
      [] c = "b" -> 98
      [] OTHER -> 122

\* a.cmp(&b) < 0 for strings: lexicographic comparison of the bytes
RECURSIVE StrLess(_, _)
StrLess(a, b) ==
    IF b = <<>> THEN FALSE
    ELSE IF a = <<>> THEN TRUE
    ELSE IF Ord(Head(a)) # Ord(Head(b)) THEN Ord(Head(a)) < Ord(Head(b))
    ELSE StrLess(Tail(a), Tail(b))

\* haystack[i..] starts with needle
StartsAt(hay, needle, i) ==
    /\ i + Len(needle) - 1 <= Len(hay)
    /\ \A k \in 1..Len(needle) : hay[i + k - 1] = needle[k]

\* substring search: needle occurs somewhere in hay (the empty needle does)
Contains(hay, needle) ==
    \E i \in 1..(Len(hay) + 1) : StartsAt(hay, needle, i)

\* ------------------------------------------------------------------------
\* compile.rs: the rule compiler
\* ------------------------------------------------------------------------
Ok(v) == [ok |-> TRUE, val |-> v]
Err(e) == [ok |-> FALSE, err |-> e]

\* Regex::new(pattern).  The rule patterns of this model are made of letters
\* and of "(", which opens a group that nothing closes: such a pattern is
\* rejected, every other one compiles to a literal matcher.
RegexNew(pattern) ==
    IF \E i \in 1..Len(pattern) : pattern[i] = "("
    THEN Err("regex parse error")
    ELSE Ok(pattern)

\* AhoCorasick::new(values): builds the automaton for any list of patterns,
\* the empty list included (an automaton that matches nothing)
AhoCorasickNew(values) == Ok(values)

\* the body of the loop of compile_rule: one expression
compile_expr(expr) ==
    CASE expr.type = "exact" ->
            Ok([type |-> "exact", field |-> expr.field, value |-> expr.value])
      [] expr.type = "regex" ->
            LET re == RegexNew(expr.pattern)
            IN  IF re.ok
                THEN Ok([type |-> "regex", field |-> expr.field,
                         re |-> re.val, raw |-> expr.pattern])
                ELSE re
      [] expr.type = "keywords" ->
            LET ac == AhoCorasickNew(expr.values)
            IN  IF ac.ok
                THEN Ok([type |-> "keywords", field |-> expr.field,
                         ac |-> ac.val, raw |-> expr.values])
                ELSE ac

\* compile_rule: every expression of when.any, the first error aborts (`?`)
compile_rule(rule) ==
    LET any == rule.when.any
        cs == [i \in 1..Len(any) |-> compile_expr(any[i])]
    IN  IF \E i \in 1..Len(any) : ~cs[i].ok
        THEN cs[CHOOSE i \in 1..Len(any) :
                    ~cs[i].ok /\ \A j \in 1..(i - 1) : cs[j].ok]
        ELSE Ok([id |-> rule.id,
                 description |-> rule.description,
                 applies_to |-> rule.applies_to,
                 action |-> rule.action,
                 priority |-> rule.priority,
                 when_any |-> [i \in 1..Len(any) |-> cs[i].val]])

\* ------------------------------------------------------------------------
\* store.rs: compile_all
\* ------------------------------------------------------------------------
\* the comparator of compile_all: a.priority.cmp(b.priority).then(a.id.cmp(b.id))
\* is Less
RuleLess(a, b) ==
    \/ a.priority < b.priority
    \/ a.priority = b.priority /\ StrLess(a.id, b.id)

\* Vec::sort_by is a stable sort: an element goes after the elements that do
\* not compare greater than it
RECURSIVE InsertSorted(_, _)
InsertSorted(sorted, r) ==
    IF sorted = <<>> THEN <<r>>
    ELSE IF RuleLess(r, Head(sorted)) THEN <<r>> \o sorted
    ELSE <<Head(sorted)>> \o InsertSorted(Tail(sorted), r)

RECURSIVE sort_by(_)
sort_by(v) ==
    IF v = <<>> THEN <<>>
    ELSE InsertSorted(sort_by(SubSeq(v, 1, Len(v) - 1)), v[Len(v)])

\* compile_all that leaves out the rules that do not compile
compile_all_SkipsBadRules(rules) ==
    LET good == SelectSeq([i \in 1..Len(rules) |-> compile_rule(rules[i])],
                          LAMBDA c : c.ok)
    IN  Ok(sort_by([i \in 1..Len(good) |-> good[i].val]))

\* compile_all without the sort
compile_all_Unsorted(rules) ==
    LET cs == [i \in 1..Len(rules) |-> compile_rule(rules[i])]
    IN  IF \E i \in 1..Len(rules) : ~cs[i].ok
        THEN cs[CHOOSE i \in 1..Len(rules) :
                    ~cs[i].ok /\ \A j \in 1..(i - 1) : cs[j].ok]
        ELSE Ok([i \in 1..Len(rules) |-> cs[i].val])

compile_all(rules) ==
    LET cs == [i \in 1..Len(rules) |-> compile_rule(rules[i])]
    IN  IF \E i \in 1..Len(rules) : ~cs[i].ok
        THEN cs[CHOOSE i \in 1..Len(rules) :
                    ~cs[i].ok /\ \A j \in 1..(i - 1) : cs[j].ok]
        ELSE Ok(sort_by([i \in 1..Len(rules) |-> cs[i].val]))

\* ------------------------------------------------------------------------
\* semantic.rs: compile_semantic
\* ------------------------------------------------------------------------
\* char::to_ascii_lowercase
to_ascii_lowercase(c) ==
    CASE c = "A" -> "a"
      [] c = "B" -> "b"
      [] c = "X" -> "x"
      [] OTHER -> c

is_whitespace(c) == c = " "

\* the loop of normalize_text: lowercase, runs of whitespace become one space
RECURSIVE normalize_loop(_, _, _)
normalize_loop(s, out, last_ws) ==
    IF s = <<>> THEN out
    ELSE LET ch == to_ascii_lowercase(Head(s))
         IN  IF is_whitespace(ch)
             THEN IF ~last_ws
                  THEN normalize_loop(Tail(s), Append(out, " "), TRUE)
                  ELSE normalize_loop(Tail(s), out, last_ws)
             ELSE normalize_loop(Tail(s), Append(out, ch), FALSE)

\* str::trim on a string whose whitespace runs are single spaces
trim(s) ==
    LET a == IF s # <<>> /\ Head(s) = " " THEN Tail(s) ELSE s
    IN  IF a # <<>> /\ a[Len(a)] = " " THEN SubSeq(a, 1, Len(a) - 1) ELSE a

normalize_text(s) == trim(normalize_loop(s, <<>>, FALSE))

\* number of buckets of the dense vector
NumBuckets == 128

\* bitwise xor of two numbers below 2^7
RECURSIVE Xor(_, _)
Xor(a, b) ==
    IF a = 0 THEN b
    ELSE IF b = 0 THEN a
    ELSE (((a % 2) + (b % 2)) % 2) + 2 * Xor(a \div 2, b \div 2)

\* The hash of one n-gram, reduced modulo 128.  sparse_to_dense only uses
\* hash % 128, and xor and wrapping_mul are compatible with reduction modulo
\* a power of two, so the bucket is computed on the low seven bits:
\* 1469598103934665603 % 128 = 37 and 1099511628211 % 128 = 51.
RECURSIVE HashBucket(_, _)
HashBucket(h, gram) ==
    IF gram = <<>> THEN h
    ELSE HashBucket((Xor(h, Ord(Head(gram)) % NumBuckets) * 51) % NumBuckets,
                    Tail(gram))

\* vectorize_char_ngrams followed by sparse_to_dense, before the division by
\* the norm: the number of n-gram occurrences that fall into each bucket,
\* as a function on the buckets that are hit (the others hold 0)
NgramCounts(text, nmin, nmax) ==
    LET chars == normalize_text(text)
        occ == {<<n, i>> \in (nmin..nmax) \X (1..Len(chars)) :
                    i + n - 1 <= Len(chars)}
        bucket(o) == HashBucket(37, SubSeq(chars, o[2], o[2] + o[1] - 1))
        hit == {bucket(o) : o \in occ}
    IN  [b \in hit |-> Cardinality({o \in occ : bucket(o) = b})]

Max(a, b) == IF a >= b THEN a ELSE b

unwrap_or(opt, d) == IF opt = None THEN d ELSE opt[1]

compile_semantic(cfg) ==
    LET ngram_min == Max(unwrap_or(cfg.ngram_min, 3), 1)
        ngram_max == Max(unwrap_or(cfg.ngram_max, 5), ngram_min)
        example(ex) == [text |-> ex.text,
                        ngram_vec |-> NgramCounts(ex.text, ngram_min, ngram_max)]
        case(c) == [id |-> c.id,
                    description |-> c.description,
                    examples |-> [i \in 1..Len(c.examples) |->
                                      example(c.examples[i])]]
    IN  [enabled |-> cfg.enabled,
         applies_to |-> cfg.applies_to,
         action |-> cfg.action,
         threshold |-> cfg.threshold,
         cases |-> [i \in 1..Len(cfg.cases) |-> case(cfg.cases[i])]]

\* ------------------------------------------------------------------------
\* policy.rs: the policy document (serde_yaml::to_string / from_str)
\* ------------------------------------------------------------------------
\* A document is the tree of YAML nodes of the text.  Enum values are spelled
\* as serde renames them, an Option is the null node or the node of its value,
\* a key that the text does not have is None.
YNull == [y |-> "null"]
YVal(v) == [y |-> "val", v |-> v]
YStr(s) == [y |-> "str", v |-> s]
YMap(m) == [y |-> "map", v |-> m]

\* #[serde(rename_all = "lowercase")] / "snake_case" on the unit variants
rename(variant) ==
    CASE variant = "Prompt" -> "prompt"
      [] variant = "Response" -> "response"
      [] variant = "Both" -> "both"
      [] variant = "Allow" -> "allow"
      [] variant = "Block" -> "block"
      [] variant = "Redact" -> "redact"
      [] variant = "Off" -> "off"
      [] variant = "Text" -> "text"
      [] variant = "Tenant" -> "tenant"
      [] variant = "Model" -> "model"

AppliesToVariants == {"Prompt", "Response", "Both"}
ActionVariants == {"Allow", "Block"}
PiiModeVariants == {"Redact", "Off"}
FieldVariants == {"Text", "Tenant", "Model"}

\* the variant a spelling names, among the variants of one enum
variant_of(variants, spelling) ==
    IF \E v \in variants : rename(v) = spelling
    THEN Ok(CHOOSE v \in variants : rename(v) = spelling)
    ELSE Err("unknown variant")

ser_option(opt) == IF opt = None THEN YNull ELSE YVal(opt[1])

\* Option<T>::deserialize: null is None, anything else is Some
de_option(node) == IF node.y = "null" THEN None ELSE Some(node.v)

\* #[derive(Serialize)] MatchExpr, #[serde(tag = "type")]
ser_expr(e) ==
    CASE e.type = "exact" ->
            [type |-> "exact", field |-> rename(e.field), value |-> e.value]
      [] e.type = "regex" ->
            [type |-> "regex", field |-> rename(e.field), pattern |-> e.pattern]
      [] e.type = "keywords" ->
            [type |-> "keywords", field |-> rename(e.field), values |-> e.values]

de_expr(n) ==
    LET f == variant_of(FieldVariants, n.field)
    IN  IF ~f.ok THEN f
        ELSE CASE n.type = "exact" ->
                    Ok([type |-> "exact", field |-> f.val, value |-> n.value])
               [] n.type = "regex" ->
                    Ok([type |-> "regex", field |-> f.val, pattern |-> n.pattern])
               [] n.type = "keywords" ->
                    Ok([type |-> "keywords", field |-> f.val, values |-> n.values])
               [] OTHER -> Err("unknown variant")

\* first error of a sequence of results, or the sequence of their values
collect(rs) ==
    IF \E i \in 1..Len(rs) : ~rs[i].ok
    THEN rs[CHOOSE i \in 1..Len(rs) : ~rs[i].ok /\ \A j \in 1..(i - 1) : rs[j].ok]
    ELSE Ok([i \in 1..Len(rs) |-> rs[i].val])

\* #[derive(Serialize)] Rule
ser_rule(r) ==
    [id |-> r.id,
     description |-> ser_option(r.description),
     applies_to |-> rename(r.applies_to),
     action |-> rename(r.action),
     priority |-> r.priority,
     when |-> [any |-> [i \in 1..Len(r.when.any) |-> ser_expr(r.when.any[i])]]]

de_rule(n) ==
    LET at == variant_of(AppliesToVariants, n.applies_to)
        ac == variant_of(ActionVariants, n.action)
        any == collect([i \in 1..Len(n.when.any) |-> de_expr(n.when.any[i])])
    IN  IF ~at.ok THEN at
        ELSE IF ~ac.ok THEN ac
        ELSE IF ~any.ok THEN any
        ELSE Ok([id |-> n.id,
                 description |-> de_option(n.description),
                 applies_to |-> at.val,
                 action |-> ac.val,
                 priority |-> n.priority,
                 when |-> [any |-> any.val]])

\* #[derive(Serialize)] PiiConfig
ser_pii(p) ==
    [enabled |-> p.enabled,
     applies_to |-> rename(p.applies_to),
     mode |-> rename(p.mode),
     redaction_token |-> p.redaction_token,
     detectors |-> p.detectors,
     max_bytes |-> p.max_bytes,
     include_findings |-> p.include_findings]

de_pii(n) ==
    LET at == variant_of(AppliesToVariants, n.applies_to)
        mo == variant_of(PiiModeVariants, n.mode)
    IN  IF ~at.ok THEN at
        ELSE IF ~mo.ok THEN mo
        ELSE Ok([enabled |-> n.enabled,
                 applies_to |-> at.val,
                 mode |-> mo.val,
                 redaction_token |-> n.redaction_token,
                 detectors |-> n.detectors,
                 max_bytes |-> n.max_bytes,
                 include_findings |-> n.include_findings])

\* #[derive(Serialize)] SemanticExample: a map with both keys, the embedding
\* of an example that has none is written as null
ser_example(ex) ==
    YMap([text |-> ex.text, embedding |-> Some(ser_option(ex.embedding))])

\* impl Deserialize for SemanticExample: visit_str takes a plain string;
\* visit_map reads the value of the key "embedding" as a Vec<f32>
\* (embedding = Some(map.next_value()?)), which a null node is not
de_example(n) ==
    IF n.y = "str" THEN Ok([text |-> n.v, embedding |-> None])
    ELSE IF n.v.embedding = None THEN Ok([text |-> n.v.text, embedding |-> None])
    ELSE IF n.v.embedding[1].y = "null"
         THEN Err("invalid type: expected a sequence")
    ELSE Ok([text |-> n.v.text, embedding |-> Some(n.v.embedding[1].v)])

ser_case(c) ==
    [id |-> c.id,
     description |-> ser_option(c.description),
     examples |-> [i \in 1..Len(c.examples) |-> ser_example(c.examples[i])]]

de_case(n) ==
    LET exs == collect([i \in 1..Len(n.examples) |-> de_example(n.examples[i])])
    IN  IF ~exs.ok THEN exs
        ELSE Ok([id |-> n.id,
                 description |-> de_option(n.description),
                 examples |-> exs.val])

\* #[derive(Serialize)] SemanticConfig
ser_semantic(c) ==
    [enabled |-> c.enabled,
     applies_to |-> rename(c.applies_to),
     action |-> rename(c.action),
     threshold |-> c.threshold,
     cases |-> [i \in 1..Len(c.cases) |-> ser_case(c.cases[i])],
     ngram_min |-> Some(ser_option(c.ngram_min)),
     ngram_max |-> Some(ser_option(c.ngram_max))]

\* #[serde(default)] ngram_min / ngram_max: a missing key is None
de_ngram(key) == IF key = None THEN None ELSE de_option(key[1])

de_semantic(n) ==
    LET at == variant_of(AppliesToVariants, n.applies_to)
        ac == variant_of(ActionVariants, n.action)
        cs == collect([i \in 1..Len(n.cases) |-> de_case(n.cases[i])])
    IN  IF ~at.ok THEN at
        ELSE IF ~ac.ok THEN ac
        ELSE IF ~cs.ok THEN cs
        ELSE Ok([enabled |-> n.enabled,
                 applies_to |-> at.val,
                 action |-> ac.val,
                 threshold |-> n.threshold,
                 cases |-> cs.val,
                 ngram_min |-> de_ngram(n.ngram_min),
                 ngram_max |-> de_ngram(n.ngram_max)])

\* impl Default for PiiDetectors
PiiDetectorsDefault ==
    [email |-> FALSE, ip |-> FALSE, credit_card |-> FALSE, phone |-> FALSE]

\* 32 * 1024
DefaultMaxBytes == 32768

\* impl Default for PiiConfig
PiiConfigDefault ==
    [enabled |-> TRUE,
     applies_to |-> "Both",
     mode |-> "Redact",
     redaction_token |-> <<"R", "E", "D", "A", "C", "T", "E", "D">>,
     detectors |-> PiiDetectorsDefault,
     max_bytes |-> DefaultMaxBytes,
     include_findings |-> FALSE]

\* impl Default for SemanticConfig; the threshold is in hundredths (0.88)
SemanticConfigDefault ==
    [enabled |-> FALSE,
     applies_to |-> "Prompt",
     action |-> "Block",
     threshold |-> 88,
     cases |-> <<>>,
     ngram_min |-> Some(3),
     ngram_max |-> Some(5)]

\* serde_yaml::to_string(&PolicyFile): every section is written
to_string(policy) ==
    [kind |-> "document",
     rules |-> [i \in 1..Len(policy.rules) |-> ser_rule(policy.rules[i])],
     pii |-> Some(ser_pii(policy.pii)),
     semantic |-> Some(ser_semantic(policy.semantic))]

\* serde_yaml::from_str::<PolicyFile>: a text that is not a complete document
\* is an error; #[serde(default)] fills in a missing pii or semantic section
from_str(raw) ==
    IF raw.kind # "document" THEN Err("malformed document")
    ELSE LET rs == collect([i \in 1..Len(raw.rules) |-> de_rule(raw.rules[i])])
             pi == IF raw.pii = None THEN Ok(PiiConfigDefault)
                   ELSE de_pii(raw.pii[1])
             se == IF raw.semantic = None THEN Ok(SemanticConfigDefault)
                   ELSE de_semantic(raw.semantic[1])
         IN  IF ~rs.ok THEN rs
             ELSE IF ~pi.ok THEN pi
             ELSE IF ~se.ok THEN se
             ELSE Ok([rules |-> rs.val, pii |-> pi.val, semantic |-> se.val])

\* ------------------------------------------------------------------------
\* The policies, documents and requests the model draws its inputs from
\* ------------------------------------------------------------------------
RuleBlockA ==
    [id |-> <<"A">>, description |-> None, applies_to |-> "Prompt",
     action |-> "Block", priority |-> 5,
     when |-> [any |-> <<[type |-> "keywords", field |-> "Text",
                          values |-> << <<"a">> >>]>>]]

RuleAllowB ==
    [id |-> <<"B">>, description |-> Some(<<"o", "k">>), applies_to |-> "Both",
     action |-> "Allow", priority |-> 5,
     when |-> [any |-> <<[type |-> "exact", field |-> "Model", value |-> <<>>],
                         [type |-> "exact", field |-> "Text",
                          value |-> <<"a", "b">>]>>]]

RuleBlockFirst ==
    [id |-> <<"B">>, description |-> Some(<<"n", "o">>), applies_to |-> "Both",
     action |-> "Block", priority |-> 1,
     when |-> [any |-> <<[type |-> "regex", field |-> "Text",
                          pattern |-> <<"b", "a">>]>>]]

RuleAllowA ==
    [id |-> <<"A">>, description |-> None, applies_to |-> "Both",
     action |-> "Allow", priority |-> 5,
     when |-> [any |-> <<[type |-> "exact", field |-> "Tenant",
                          value |-> <<>>]>>]]

RuleBlockLate ==
    [id |-> <<"C">>, description |-> None, applies_to |-> "Both",
     action |-> "Block", priority |-> 9,
     when |-> [any |-> <<[type |-> "keywords", field |-> "Text",
                          values |-> << <<"@">> >>]>>]]

\* a rule whose only expression is a keywords list with no value
RuleEmptyKeywords ==
    [id |-> <<"E">>, description |-> None, applies_to |-> "Both",
     action |-> "Block", priority |-> 7,
     when |-> [any |-> <<[type |-> "keywords", field |-> "Text",
                          values |-> <<>>]>>]]

RuleBadRegex ==
    [id |-> <<"A", "B">>, description |-> None, applies_to |-> "Prompt",
     action |-> "Block", priority |-> 1,
     when |-> [any |-> <<[type |-> "regex", field |-> "Text",
                          pattern |-> <<"(", "a">>]>>]]

\* rules out of (priority, id) order; an example that carries an embedding
PolicyAllowlist ==
    [rules |-> <<RuleAllowB, RuleBlockA, RuleBlockLate>>,
     pii |-> [enabled |-> TRUE, applies_to |-> "Both", mode |-> "Redact",
              redaction_token |-> <<"X">>,
              detectors |-> [email |-> TRUE, ip |-> FALSE,
                             credit_card |-> FALSE, phone |-> FALSE],
              max_bytes |-> 6, include_findings |-> TRUE],
     semantic |-> [enabled |-> TRUE, applies_to |-> "Prompt",
                   action |-> "Block", threshold |-> 99,
                   cases |-> <<[id |-> <<"a">>, description |-> None,
                                examples |-> <<[text |-> <<"a", "b">>,
                                                embedding |-> Some(<<1, 2>>)]>>]>>,
                   ngram_min |-> Some(1), ngram_max |-> None]]

\* a small payload cap; an example written as a plain string (no embedding);
\* a rule with an empty keywords list
PolicyStrict ==
    [rules |-> <<RuleBlockFirst, RuleEmptyKeywords>>,
     pii |-> [enabled |-> TRUE, applies_to |-> "Response", mode |-> "Redact",
              redaction_token |-> <<"X">>,
              detectors |-> PiiDetectorsDefault,
              max_bytes |-> 2, include_findings |-> FALSE],
     semantic |-> [enabled |-> TRUE, applies_to |-> "Prompt",
                   action |-> "Block", threshold |-> 88,
                   cases |-> <<[id |-> <<"b">>, description |-> None,
                                examples |-> <<[text |-> <<"a", "b">>,
                                                embedding |-> None]>>]>>,
                   ngram_min |-> None, ngram_max |-> None]]

\* two rules with the same id; a semantic stage that blocks prompts, with two
\* cases and the default n-gram range
PolicyDuplicate ==
    [rules |-> <<RuleBlockA, RuleAllowA>>,
     pii |-> PiiConfigDefault,
     semantic |-> [enabled |-> TRUE, applies_to |-> "Prompt",
                   action |-> "Block", threshold |-> 88,
                   cases |-> <<[id |-> <<"a">>, description |-> None,
                                examples |-> <<[text |-> <<"a", "b">>,
                                                embedding |-> None]>>],
                               [id |-> <<"b">>, description |-> None,
                                examples |-> <<[text |-> <<"B", "b", " ", "b">>,
                                                embedding |-> None]>>]>>,
                   ngram_min |-> None, ngram_max |-> None]]

\* a rule whose pattern does not compile, after one that does
PolicyBadRegex ==
    [rules |-> <<RuleBlockA, RuleBadRegex>>,
     pii |-> [PiiConfigDefault EXCEPT !.max_bytes = 1],
     semantic |-> SemanticConfigDefault]

Policies == {PolicyAllowlist, PolicyStrict, PolicyDuplicate, PolicyBadRegex}

\* the file at policy_path
MissingFile == [kind |-> "missing"]
\* what a failed write leaves of the text: a proper prefix of it
PartialFile == [kind |-> "partial"]

\* a file that is there and is no UTF-8 text (or may not be read)
UnreadableFile == [kind |-> "unreadable"]

\* a hand-written document: no pii section, an example as a plain string
DocumentByHand ==
    [kind |-> "document",
     rules |-> <<ser_rule(RuleBlockFirst)>>,
     pii |-> None,
     semantic |-> Some([enabled |-> FALSE, applies_to |-> "both",
                        action |-> "allow", threshold |-> 50,
                        cases |-> <<[id |-> <<"a">>, description |-> YNull,
                                     examples |-> <<YStr(<<"a">>)>>]>>,
                        ngram_min |-> None, ngram_max |-> None])]

\* the files the process may find at startup
StartupFiles == {MissingFile, DocumentByHand, PartialFile, to_string(PolicyBadRegex)}

\* ------------------------------------------------------------------------
\* store.rs: RuleStore
\* ------------------------------------------------------------------------
\* tokio::fs::read_to_string: an error if there is no file at the path or if
\* what is there cannot be read as UTF-8 text, the text otherwise
read_to_string(file) ==
    IF file.kind \in {"missing", "unreadable"} THEN Err("io") ELSE Ok(file)

\* RuleStore::load on the file it finds; Ok(Inner) or the error.  Whatever the
\* error of the read, the text is "rules: []\n" (unwrap_or_else(|_| ...))
load(file) ==
    LET raw == IF ~read_to_string(file).ok
               THEN [kind |-> "document", rules |-> <<>>,
                     pii |-> None, semantic |-> None]
               ELSE read_to_string(file).val
        policy == from_str(raw)
        compiled == compile_all(policy.val.rules)
    IN  IF ~policy.ok THEN policy
        ELSE IF ~compiled.ok THEN compiled
        ELSE Ok([rules |-> policy.val.rules,
                 compiled |-> compiled.val,
                 pii |-> policy.val.pii,
                 semantic_cfg |-> policy.val.semantic,
                 semantic |-> compile_semantic(policy.val.semantic)])

\* the callers of the store: admin handlers (apply_policy), readers of the
\* whole policy (get_policy) and eval handlers
Admins == {"admin1", "admin2"}
Getters == {"get1"}
Evals == {"eval1"}

VARIABLES
    rules,          \* Inner.rules
    compiled,       \* Inner.compiled
    pii,            \* Inner.pii
    semantic_cfg,   \* Inner.semantic_cfg
    semantic,       \* Inner.semantic
    disk,           \* the file at Inner.policy_path
    writer,         \* the RwLock: the task that holds the write guard
    readers,        \* the RwLock: the tasks that hold a read guard
    admin,          \* per admin handler: position and locals of apply_policy
    getter,         \* per reader: position and locals of get_policy
    evaler,         \* per eval handler: position and locals of eval
    applied,        \* history: the policies that have been the active one
    calls           \* history: number of calls made so far

inner == <<rules, compiled, pii, semantic_cfg, semantic>>
vars == <<rules, compiled, pii, semantic_cfg, semantic, disk, writer, readers,
          admin, getter, evaler, applied, calls>>

\* what get_policy builds from the fields of Inner
ActivePolicy == [rules |-> rules, pii |-> pii, semantic |-> semantic_cfg]

AdminIdle == [pc |-> "idle", policy |-> None, compiled |-> None,
              semantic_cfg |-> None, semantic |-> None, ret |-> None,
              before |-> None]
GetterIdle == [pc |-> "idle", rules |-> None, pii |-> None, ret |-> None]
EvalIdle == [pc |-> "idle", req |-> None, request_id |-> None,
             compiled |-> None, stage1 |-> None, pii_cfg |-> None,
             resp |-> None]

\* the state after RuleStore::load(policy_path) has returned Ok in main
Init ==
    /\ disk \in StartupFiles
    /\ load(disk).ok
    /\ rules = load(disk).val.rules
    /\ compiled = load(disk).val.compiled
    /\ pii = load(disk).val.pii
    /\ semantic_cfg = load(disk).val.semantic_cfg
    /\ semantic = load(disk).val.semantic
    /\ writer = None
    /\ readers = {}
    /\ admin = [a \in Admins |-> AdminIdle]
    /\ getter = [g \in Getters |-> GetterIdle]
    /\ evaler = [e \in Evals |-> EvalIdle]
    /\ applied = {[rules |-> load(disk).val.rules, pii |-> load(disk).val.pii,
                   semantic |-> load(disk).val.semantic_cfg]}
    /\ calls = 0

\* tokio::sync::RwLock: read() is granted while no write guard is out,
\* write() while no guard at all is out.  (The lock also queues readers
\* behind a waiting writer; the model allows every order the queue allows.)
CanRead == writer = None
\* a lock whose write() does not wait for the read guards that are out
CanWrite_IgnoresReaders == writer = None
\* a lock that grants write() while another write guard is out
CanWrite_NoExclusion == readers = {}
CanWrite == writer = None /\ readers = {}

\* what the caller of apply_policy can see of the store: memory and file
StoreState == [policy |-> ActivePolicy, compiled |-> compiled,
               semantic |-> semantic, disk |-> disk]

\* apply_policy, up to `self.inner.write().await`: compile first, and return
\* the error if the rules do not compile
ApplyCall(a, policy) ==
    /\ admin[a].pc = "idle"
    /\ calls < MaxCalls
    /\ calls' = calls + 1
    /\ LET c == compile_all(policy.rules)
       IN  IF ~c.ok
           THEN admin' = [admin EXCEPT ![a] =
                    [AdminIdle EXCEPT !.policy = Some(policy),
                                      !.ret = Some(Err("compile")),
                                      !.before = Some(StoreState)]]
           ELSE admin' = [admin EXCEPT ![a] =
                    [pc |-> "lock", policy |-> Some(policy),
                     compiled |-> Some(c.val),
                     semantic_cfg |-> Some(policy.semantic),
                     semantic |-> Some(compile_semantic(policy.semantic)),
                     ret |-> None, before |-> None]]
    /\ UNCHANGED <<inner, disk, writer, readers, getter, evaler, applied>>

\* let mut w = self.inner.write().await
ApplyLock(a) ==
    /\ admin[a].pc = "lock"
    /\ CanWrite
    /\ writer' = Some(a)
    /\ admin' = [admin EXCEPT ![a].pc = "rules", ![a].before = Some(StoreState)]
    /\ applied' = applied \cup {admin[a].policy[1]}
    /\ UNCHANGED <<inner, disk, readers, getter, evaler, calls>>

\* w.rules = policy.rules
ApplySetRules(a) ==
    /\ admin[a].pc = "rules"
    /\ rules' = admin[a].policy[1].rules
    /\ admin' = [admin EXCEPT ![a].pc = "pii"]
    /\ UNCHANGED <<compiled, pii, semantic_cfg, semantic, disk, writer, readers,
                   getter, evaler, applied, calls>>

\* w.pii = policy.pii
ApplySetPii(a) ==
    /\ admin[a].pc = "pii"
    /\ pii' = admin[a].policy[1].pii
    /\ admin' = [admin EXCEPT ![a].pc = "compiled"]
    /\ UNCHANGED <<rules, compiled, semantic_cfg, semantic, disk, writer, readers,
                   getter, evaler, applied, calls>>

\* w.compiled = compiled
ApplySetCompiled(a) ==
    /\ admin[a].pc = "compiled"
    /\ compiled' = admin[a].compiled[1]
    /\ admin' = [admin EXCEPT ![a].pc = "semantic_cfg"]
    /\ UNCHANGED <<rules, pii, semantic_cfg, semantic, disk, writer, readers,
                   getter, evaler, applied, calls>>

\* w.semantic_cfg = semantic_cfg
ApplySetSemanticCfg(a) ==
    /\ admin[a].pc = "semantic_cfg"
    /\ semantic_cfg' = admin[a].semantic_cfg[1]
    /\ admin' = [admin EXCEPT ![a].pc = "semantic"]
    /\ UNCHANGED <<rules, compiled, pii, semantic, disk, writer, readers,
                   getter, evaler, applied, calls>>

\* w.semantic = semantic
ApplySetSemantic(a) ==
    /\ admin[a].pc = "semantic"
    /\ semantic' = admin[a].semantic[1]
    /\ admin' = [admin EXCEPT ![a].pc = "create_dir"]
    /\ UNCHANGED <<rules, compiled, pii, semantic_cfg, disk, writer, readers,
                   getter, evaler, applied, calls>>

\* apply_policy returns r: the write guard w is dropped
ApplyReturn(a, r) ==
    /\ writer' = None
    /\ admin' = [admin EXCEPT ![a].pc = "idle", ![a].ret = Some(r)]

\* persist_locked: tokio::fs::create_dir_all(parent).await?, which the file
\* system lets succeed or fail
ApplyCreateDir(a, io_ok) ==
    /\ admin[a].pc = "create_dir"
    /\ IF io_ok
       THEN /\ admin' = [admin EXCEPT ![a].pc = "write"]
            /\ UNCHANGED writer
       ELSE ApplyReturn(a, Err("io"))
    /\ UNCHANGED <<inner, disk, readers, getter, evaler, applied, calls>>

\* persist_locked: yaml = to_string(rules, pii, semantic_cfg of Inner), then
\* tokio::fs::write(policy_path, yaml).await?; a write that fails leaves the
\* file as it was or with a prefix of the text
ApplyWrite(a, io) ==
    /\ admin[a].pc = "write"
    /\ LET yaml == to_string(ActivePolicy)
       IN  CASE io = "ok" ->
                    /\ disk' = yaml
                    /\ ApplyReturn(a, Ok("applied"))
             [] io = "failed" ->
                    /\ disk' = disk
                    /\ ApplyReturn(a, Err("io"))
             [] io = "failed_partial" ->
                    /\ disk' = PartialFile
                    /\ ApplyReturn(a, Err("io"))
    /\ UNCHANGED <<inner, readers, getter, evaler, applied, calls>>

\* get_policy: let r = self.inner.read().await
GetLock(g) ==
    /\ getter[g].pc = "idle"
    /\ calls < MaxCalls
    /\ CanRead
    /\ calls' = calls + 1
    /\ readers' = readers \cup {g}
    /\ getter' = [getter EXCEPT ![g] = [GetterIdle EXCEPT !.pc = "rules"]]
    /\ UNCHANGED <<inner, disk, writer, admin, evaler, applied>>

\* rules: r.rules.clone()
GetCloneRules(g) ==
    /\ getter[g].pc = "rules"
    /\ getter' = [getter EXCEPT ![g].pc = "pii", ![g].rules = Some(rules)]
    /\ UNCHANGED <<inner, disk, writer, readers, admin, evaler, applied, calls>>

\* pii: r.pii.clone()
GetClonePii(g) ==
    /\ getter[g].pc = "pii"
    /\ getter' = [getter EXCEPT ![g].pc = "semantic", ![g].pii = Some(pii)]
    /\ UNCHANGED <<inner, disk, writer, readers, admin, evaler, applied, calls>>

\* semantic: r.semantic_cfg.clone(); the PolicyFile is returned and the read
\* guard r is dropped
GetCloneSemantic(g) ==
    /\ getter[g].pc = "semantic"
    /\ getter' = [getter EXCEPT ![g] =
            [GetterIdle EXCEPT !.ret = Some([rules |-> getter[g].rules[1],
                                             pii |-> getter[g].pii[1],
                                             semantic |-> semantic_cfg])]]
    /\ readers' = readers \ {g}
    /\ UNCHANGED <<inner, disk, writer, admin, evaler, applied, calls>>

\* ------------------------------------------------------------------------
\* pii_regex.rs: PiiRegexDetector
\* ------------------------------------------------------------------------
Digit == {"0", "1", "2", "3", "4", "5", "6", "7", "8", "9"}
Alpha == {"a", "b", "c", "d", "e", "f", "g", "h", "i", "j", "k", "l", "m",
          "n", "o", "p", "q", "r", "s", "t", "u", "v", "w", "x", "y", "z",
          "A", "B", "C", "D", "E", "F", "G", "H", "I", "J", "K", "L", "M",
          "N", "O", "P", "Q", "R", "S", "T", "U", "V", "W", "X", "Y", "Z"}
\* \w, for \b
WordChar == Alpha \cup Digit \cup {"_"}
\* (?i)[A-Z0-9._%+-]
EmailLocal == Alpha \cup Digit \cup {".", "_", "%", "+", "-"}
\* (?i)[A-Z0-9.-]
EmailDomain == Alpha \cup Digit \cup {".", "-"}
\* [ -]
Separator == {" ", "-"}

IsWordAt(text, p) == p >= 1 /\ p <= Len(text) /\ text[p] \in WordChar

\* \b between the characters at positions p and p + 1 (1-based)
Boundary(text, p) == IsWordAt(text, p) # IsWordAt(text, p + 1)

AllIn(text, a, b, class) == \A k \in a..b : text[k] \in class

CountIn(text, a, b, class) == Cardinality({k \in a..b : text[k] \in class})

\* The positions where a match of the pattern that starts at i may end.  All
\* repetitions of the four patterns are greedy and the engine gives up what
\* they took from the right, one alternative shorter than the other, so the
\* match it reports at i is the longest one.

\* the end of the longest run of characters of the class that starts at i
\* (i - 1 if there is none)
RECURSIVE RunEnd(_, _, _)
RunEnd(text, i, class) ==
    IF i > Len(text) THEN i - 1
    ELSE IF text[i] \notin class THEN i - 1
    ELSE RunEnd(text, i + 1, class)

Min(a, b) == IF a <= b THEN a ELSE b

\* re_email: (?i)\b[A-Z0-9._%+-]+@[A-Z0-9.-]+\.[A-Z]{2,}\b
EmailEnds(text, i) ==
    IF ~(Boundary(text, i - 1) /\ text[i] \in EmailLocal) THEN {}
    ELSE {e \in i..Len(text) :
            /\ Boundary(text, e)
            /\ text[e] \in Alpha
            /\ \E j \in (i + 1)..e :
                  /\ text[j] = "@"
                  /\ AllIn(text, i, j - 1, EmailLocal)
                  /\ \E k \in (j + 2)..e :
                        /\ text[k] = "."
                        /\ e - k >= 2
                        /\ AllIn(text, j + 1, k - 1, EmailDomain)
                        /\ AllIn(text, k + 1, e, Alpha)}

\* \d{1,3}
DigitGroup(text, a, b) == b - a + 1 \in 1..3 /\ AllIn(text, a, b, Digit)

\* re_ipv4: \b(\d{1,3}\.){3}\d{1,3}\b; a match has 7 to 15 characters
Ipv4Ends(text, i) ==
    IF ~(Boundary(text, i - 1) /\ text[i] \in Digit) THEN {}
    ELSE {e \in (i + 6)..Min(Len(text), i + 14) :
            /\ Boundary(text, e)
            /\ \E p1 \in (i + 1)..Min(e, i + 3) :
                  /\ text[p1] = "."
                  /\ DigitGroup(text, i, p1 - 1)
                  /\ \E p2 \in (p1 + 2)..Min(e, p1 + 4) :
                        /\ text[p2] = "."
                        /\ DigitGroup(text, p1 + 1, p2 - 1)
                        /\ \E p3 \in (p2 + 2)..Min(e, p2 + 4) :
                              /\ text[p3] = "."
                              /\ DigitGroup(text, p2 + 1, p3 - 1)
                              /\ DigitGroup(text, p3 + 1, e)}

\* re_cc_digits: \b(?:\d[ -]?){13,19}\b
CcEnds(text, i) ==
    IF ~(Boundary(text, i - 1) /\ text[i] \in Digit) THEN {}
    ELSE {e \in i..RunEnd(text, i, Digit \cup Separator) :
            /\ Boundary(text, e)
            /\ CountIn(text, i, e, Digit) \in 13..19
            /\ \A k \in (i + 1)..e : text[k] \in Separator => text[k - 1] \in Digit}

\* re_phone: \b(?:\+?\d[\d -]{7,}\d)\b
PhoneEnds(text, i) ==
    LET d == IF text[i] = "+" THEN i + 1 ELSE i
    IN  IF ~(Boundary(text, i - 1) /\ d <= Len(text)) THEN {}
        ELSE IF text[d] \notin Digit THEN {}
        ELSE {e \in (d + 8)..RunEnd(text, d + 1, Digit \cup Separator) :
                Boundary(text, e) /\ text[e] \in Digit}

SetMax(S) == CHOOSE m \in S : \A k \in S : k <= m

\* the end of the match that starts at i, 0 if there is none
MatchEnd(ends) == IF ends = {} THEN 0 ELSE SetMax(ends)

\* Regex::find_iter: the leftmost match from pos on, then on from its end;
\* best[i] is the end of the match that starts at i, 0 if there is none, and
\* n the length of the text
RECURSIVE find_iter(_, _, _)
find_iter(best, pos, n) ==
    IF pos > n THEN <<>>
    ELSE LET to == best[pos]
         IN  IF to # 0
             THEN <<[from |-> pos, to |-> to]>> \o find_iter(best, to + 1, n)
             ELSE find_iter(best, pos + 1, n)

EmailMatches(text) ==
    find_iter([i \in 1..Len(text) |-> MatchEnd(EmailEnds(text, i))], 1, Len(text))
Ipv4Matches(text) ==
    find_iter([i \in 1..Len(text) |-> MatchEnd(Ipv4Ends(text, i))], 1, Len(text))
CcMatches(text) ==
    find_iter([i \in 1..Len(text) |-> MatchEnd(CcEnds(text, i))], 1, Len(text))
PhoneMatches(text) ==
    find_iter([i \in 1..Len(text) |-> MatchEnd(PhoneEnds(text, i))], 1, Len(text))

\* ch as u8 - b'0'
DigitValue(c) ==
    CASE c = "0" -> 0 [] c = "1" -> 1 [] c = "2" -> 2 [] c = "3" -> 3
      [] c = "4" -> 4 [] c = "5" -> 5 [] c = "6" -> 6 [] c = "7" -> 7
      [] c = "8" -> 8 [] c = "9" -> 9

SelectSeq2(s, class) == SelectSeq(s, LAMBDA c : c \in class)

\* p.parse::<u16>() of one to three digits
RECURSIVE parse_u16(_)
parse_u16(p) ==
    IF p = <<>> THEN 0
    ELSE 10 * parse_u16(SubSeq(p, 1, Len(p) - 1)) + DigitValue(p[Len(p)])

\* s.split('.')
RECURSIVE split_dot(_, _)
split_dot(s, cur) ==
    IF s = <<>> THEN <<cur>>
    ELSE IF Head(s) = "." THEN <<cur>> \o split_dot(Tail(s), <<>>)
    ELSE split_dot(Tail(s), Append(cur, Head(s)))

is_valid_ipv4(s) ==
    LET parts == split_dot(s, <<>>)
    IN  /\ Len(parts) = 4
        /\ \A k \in 1..Len(parts) :
              /\ parts[k] # <<>>
              /\ Len(parts[k]) <= 3
              /\ AllIn(parts[k], 1, Len(parts[k]), Digit)
              /\ parse_u16(parts[k]) <= 255

\* the loop of luhn_valid over the digits from the right
RECURSIVE luhn_sum(_, _)
luhn_sum(digits, double) ==
    IF digits = <<>> THEN 0
    ELSE LET d0 == DigitValue(digits[Len(digits)])
             d1 == IF double THEN 2 * d0 ELSE d0
             d2 == IF double /\ d1 > 9 THEN d1 - 9 ELSE d1
         IN  d2 + luhn_sum(SubSeq(digits, 1, Len(digits) - 1), ~double)

\* luhn_valid that starts the doubling at the last digit
luhn_valid_DoublesLast(digits) == luhn_sum(digits, TRUE) % 10 = 0

luhn_valid(digits) == luhn_sum(digits, FALSE) % 10 = 0

Finding(type, text, m) ==
    [pii_type |-> type, start |-> m.from - 1, end |-> m.to,
     text |-> SubSeq(text, m.from, m.to)]

\* the comparator of detect: a.start.cmp(b.start).then(b.end.cmp(a.end)) is Less
FindingLess(a, b) ==
    \/ a.start < b.start
    \/ a.start = b.start /\ b.end < a.end

RECURSIVE InsertFinding(_, _)
InsertFinding(sorted, f) ==
    IF sorted = <<>> THEN <<f>>
    ELSE IF FindingLess(f, Head(sorted)) THEN <<f>> \o sorted
    ELSE <<Head(sorted)>> \o InsertFinding(Tail(sorted), f)

\* out.sort_by(..), a stable sort
RECURSIVE sort_findings(_)
sort_findings(v) ==
    IF v = <<>> THEN <<>>
    ELSE InsertFinding(sort_findings(SubSeq(v, 1, Len(v) - 1)), v[Len(v)])

\* the loop of merge_overlaps
RECURSIVE merge_loop(_, _, _)
merge_loop(sorted, out, last_end) ==
    IF sorted = <<>> THEN out
    ELSE LET f == Head(sorted)
         IN  IF out = <<>> THEN merge_loop(Tail(sorted), <<f>>, f.end)
             ELSE IF f.start < last_end THEN merge_loop(Tail(sorted), out, last_end)
             ELSE merge_loop(Tail(sorted), Append(out, f), f.end)

\* merge_overlaps that keeps every finding
merge_overlaps_KeepsAll(sorted) == sorted

merge_overlaps(sorted) == merge_loop(sorted, <<>>, 0)

\* the findings detect pushes to `out`, before the sort: the matches of the
\* four patterns that pass their checks, in the order Email, Ip, CreditCard,
\* Phone
Candidates(text) ==
    LET em == EmailMatches(text)
        ip == SelectSeq(Ipv4Matches(text),
                        LAMBDA m : is_valid_ipv4(SubSeq(text, m.from, m.to)))
        digits(m) == SelectSeq2(SubSeq(text, m.from, m.to), Digit)
        cc == SelectSeq(CcMatches(text),
                        LAMBDA m : /\ Len(digits(m)) >= 13
                                   /\ Len(digits(m)) <= 19
                                   /\ luhn_valid(digits(m)))
        ph == SelectSeq(PhoneMatches(text),
                        LAMBDA m : Len(digits(m)) >= 8 /\ Len(digits(m)) <= 15)
    IN  [k \in 1..Len(em) |-> Finding("Email", text, em[k])]
        \o [k \in 1..Len(ip) |-> Finding("Ip", text, ip[k])]
        \o [k \in 1..Len(cc) |-> Finding("CreditCard", text, cc[k])]
        \o [k \in 1..Len(ph) |-> Finding("Phone", text, ph[k])]

detect(text) == merge_overlaps(sort_findings(Candidates(text)))

\* ------------------------------------------------------------------------
\* api.rs: the eval handler
\* ------------------------------------------------------------------------
applies(applies_to, kind) ==
    \/ applies_to = "Both"
    \/ applies_to = "Prompt" /\ kind = "Prompt"
    \/ applies_to = "Response" /\ kind = "Response"

\* as_deref().unwrap_or("") for the optional fields
field_value(field, req) ==
    CASE field = "Text" -> req.text
      [] field = "Tenant" -> unwrap_or(req.tenant, <<>>)
      [] field = "Model" -> unwrap_or(req.model, <<>>)

\* Exact: equality; Regex::is_match of a literal pattern and
\* AhoCorasick::is_match: an occurrence of the pattern / of one of the values
match_one(m, req) ==
    CASE m.type = "exact" -> field_value(m.field, req) = m.value
      [] m.type = "regex" -> Contains(field_value(m.field, req), m.re)
      [] m.type = "keywords" ->
            \E k \in 1..Len(m.ac) : Contains(field_value(m.field, req), m.ac[k])

Matched == <<"m", "a", "t", "c", "h", "e", "d">>

\* evaluate_stage1 that keeps scanning after a match: the last match wins
RECURSIVE evaluate_stage1_LastMatch(_, _)
evaluate_stage1_LastMatch(rs, req) ==
    IF rs = <<>> THEN [action |-> "Allow", matched_rule |-> None, reason |-> None]
    ELSE LET r == rs[Len(rs)]
         IN  IF /\ applies(r.applies_to, req.kind)
                /\ \E k \in 1..Len(r.when_any) : match_one(r.when_any[k], req)
             THEN [action |-> r.action,
                   matched_rule |-> Some(r.id),
                   reason |-> IF r.description # None THEN r.description
                              ELSE Some(Matched)]
             ELSE evaluate_stage1_LastMatch(SubSeq(rs, 1, Len(rs) - 1), req)

\* evaluate_stage1 in which an allow rule does not end the scan: a block
\* rule that matches later in the order wins over it
RECURSIVE evaluate_stage1_BlockWins(_, _)
evaluate_stage1_BlockWins(rs, req) ==
    IF rs = <<>> THEN [action |-> "Allow", matched_rule |-> None, reason |-> None]
    ELSE LET r == Head(rs)
             rest == evaluate_stage1_BlockWins(Tail(rs), req)
         IN  IF ~applies(r.applies_to, req.kind) THEN rest
             ELSE IF ~\E k \in 1..Len(r.when_any) : match_one(r.when_any[k], req)
             THEN rest
             ELSE IF r.action = "Allow" /\ rest.action = "Block" THEN rest
             ELSE [action |-> r.action,
                   matched_rule |-> Some(r.id),
                   reason |-> IF r.description # None THEN r.description
                              ELSE Some(Matched)]

RECURSIVE evaluate_stage1(_, _)
evaluate_stage1(rs, req) ==
    IF rs = <<>> THEN [action |-> "Allow", matched_rule |-> None, reason |-> None]
    ELSE LET r == Head(rs)
         IN  IF ~applies(r.applies_to, req.kind)
             THEN evaluate_stage1(Tail(rs), req)
             ELSE IF \E k \in 1..Len(r.when_any) : match_one(r.when_any[k], req)
             THEN [action |-> r.action,
                   matched_rule |-> Some(r.id),
                   reason |-> IF r.description # None THEN r.description
                              ELSE Some(Matched)]
             ELSE evaluate_stage1(Tail(rs), req)

\* the filter of eval: the findings of the detector types that are switched on
enabled_detector(detectors, f) ==
    CASE f.pii_type = "Email" -> detectors.email
      [] f.pii_type = "Ip" -> detectors.ip
      [] f.pii_type = "CreditCard" -> detectors.credit_card
      [] f.pii_type = "Phone" -> detectors.phone

\* String::replace_range(start..end, with)
replace_range(str, start, end, with) ==
    SubSeq(str, 1, start) \o with \o SubSeq(str, end + 1, Len(str))

\* the loop of eval from the first finding to the last, every replacement at
\* the offsets in the original text
RECURSIVE redact_LeftToRight(_, _, _)
redact_LeftToRight(masked, findings, token) ==
    IF findings = <<>> THEN masked
    ELSE redact_LeftToRight(replace_range(masked, Head(findings).start,
                                          Head(findings).end, token),
                            Tail(findings), token)

\* for f in findings.iter().rev() { masked.replace_range(f.start..f.end, token) }
RECURSIVE redact(_, _, _)
redact(masked, findings, token) ==
    IF findings = <<>> THEN masked
    ELSE LET f == findings[Len(findings)]
         IN  redact(replace_range(masked, f.start, f.end, token),
                    SubSeq(findings, 1, Len(findings) - 1), token)

\* PiiType::token
token(pii_type) ==
    CASE pii_type = "Email" -> <<"[", "E", "M", "A", "I", "L", "]">>
      [] pii_type = "Ip" -> <<"[", "I", "P", "]">>
      [] pii_type = "CreditCard" ->
            <<"[", "C", "R", "E", "D", "I", "T", "_", "C", "A", "R", "D", "]">>
      [] pii_type = "Phone" -> <<"[", "P", "H", "O", "N", "E", "]">>

\* apply_replacements: right to left, each finding by the token of its type
RECURSIVE apply_replacements(_, _)
apply_replacements(input, findings) ==
    IF findings = <<>> THEN input
    ELSE LET f == findings[Len(findings)]
         IN  apply_replacements(replace_range(input, f.start, f.end, token(f.pii_type)),
                                SubSeq(findings, 1, Len(findings) - 1))

\* PiiRegexDetector::full_mask
full_mask(text) ==
    [masked |-> apply_replacements(text, detect(text)), findings |-> detect(text)]

PiiEntity(f) ==
    [entity_type |-> f.pii_type, start |-> f.start, end |-> f.end,
     score |-> 1, text |-> f.text]

\* the response to a request that Stage 1 blocks
BlockResponse(request_id, s1) ==
    [status |-> 200, request_id |-> request_id, action |-> s1.action,
     matched_rule |-> s1.matched_rule, reason |-> s1.reason,
     output_text |-> None, pii |-> None]

PayloadTooLarge == [status |-> 413]

\* the rest of eval with the payload guard inside `if pii_should_run`
Stage2Response_GuardInStage2(request_id, req, s1, pii_cfg) ==
    LET pii_should_run == /\ pii_cfg.enabled
                          /\ applies(pii_cfg.applies_to, req.kind)
                          /\ pii_cfg.mode = "Redact"
        findings == SelectSeq(detect(req.text),
                        LAMBDA f : enabled_detector(pii_cfg.detectors, f))
        redacted == pii_should_run /\ findings # <<>>
    IN  IF pii_should_run /\ Len(req.text) > pii_cfg.max_bytes
        THEN PayloadTooLarge
        ELSE [status |-> 200, request_id |-> request_id, action |-> "Allow",
              matched_rule |-> s1.matched_rule, reason |-> s1.reason,
              output_text |->
                  IF redacted
                  THEN Some(redact(req.text, findings, pii_cfg.redaction_token))
                  ELSE None,
              pii |->
                  IF redacted /\ pii_cfg.include_findings
                  THEN Some([k \in 1..Len(findings) |-> PiiEntity(findings[k])])
                  ELSE None]

\* the rest of eval with the findings in every response that is redacted
Stage2Response_AlwaysFindings(request_id, req, s1, pii_cfg) ==
    IF Len(req.text) > pii_cfg.max_bytes THEN PayloadTooLarge
    ELSE LET pii_should_run == /\ pii_cfg.enabled
                               /\ applies(pii_cfg.applies_to, req.kind)
                               /\ pii_cfg.mode = "Redact"
             findings == SelectSeq(detect(req.text),
                             LAMBDA f : enabled_detector(pii_cfg.detectors, f))
             redacted == pii_should_run /\ findings # <<>>
         IN  [status |-> 200, request_id |-> request_id, action |-> "Allow",
              matched_rule |-> s1.matched_rule, reason |-> s1.reason,
              output_text |->
                  IF redacted
                  THEN Some(redact(req.text, findings, pii_cfg.redaction_token))
                  ELSE None,
              pii |->
                  IF redacted
                  THEN Some([k \in 1..Len(findings) |-> PiiEntity(findings[k])])
                  ELSE None]

\* Stage 2 that runs whatever the mode of the PII config
Stage2Response_IgnoresMode(request_id, req, s1, pii_cfg) ==
    IF Len(req.text) > pii_cfg.max_bytes THEN PayloadTooLarge
    ELSE LET pii_should_run == /\ pii_cfg.enabled
                               /\ applies(pii_cfg.applies_to, req.kind)
             findings == SelectSeq(detect(req.text),
                             LAMBDA f : enabled_detector(pii_cfg.detectors, f))
             redacted == pii_should_run /\ findings # <<>>
         IN  [status |-> 200, request_id |-> request_id, action |-> "Allow",
              matched_rule |-> s1.matched_rule, reason |-> s1.reason,
              output_text |->
                  IF redacted
                  THEN Some(redact(req.text, findings, pii_cfg.redaction_token))
                  ELSE None,
              pii |->
                  IF redacted /\ pii_cfg.include_findings
                  THEN Some([k \in 1..Len(findings) |-> PiiEntity(findings[k])])
                  ELSE None]

\* eval from `let pii_cfg = ...` on: payload guard, Stage 2, the response
Stage2Response(request_id, req, s1, pii_cfg) ==
    IF Len(req.text) > pii_cfg.max_bytes THEN PayloadTooLarge
    ELSE LET pii_should_run == /\ pii_cfg.enabled
                               /\ applies(pii_cfg.applies_to, req.kind)
                               /\ pii_cfg.mode = "Redact"
             findings == SelectSeq(detect(req.text),
                             LAMBDA f : enabled_detector(pii_cfg.detectors, f))
             redacted == pii_should_run /\ findings # <<>>
         IN  [status |-> 200, request_id |-> request_id, action |-> "Allow",
              matched_rule |-> s1.matched_rule, reason |-> s1.reason,
              output_text |->
                  IF redacted
                  THEN Some(redact(req.text, findings, pii_cfg.redaction_token))
                  ELSE None,
              pii |->
                  IF redacted /\ pii_cfg.include_findings
                  THEN Some([k \in 1..Len(findings) |-> PiiEntity(findings[k])])
                  ELSE None]

\* the text of an example of a semantic case, up to case and whitespace
SemanticText == <<"b", "b", " ", " ", "b">>
EmailText == <<"a", "@", "a", ".", "a", "a">>
LongEmailText == <<"a", "@", "a", ".", "a", "a", "a">>

\* the requests that eval handlers receive
Requests ==
    {[request_id |-> None, kind |-> "Prompt", text |-> <<"a", "b", "a">>,
      tenant |-> None, model |-> None],
     [request_id |-> None, kind |-> "Response", text |-> <<"a", "b", "b">>,
      tenant |-> None, model |-> None],
     [request_id |-> Some("id0"), kind |-> "Response", text |-> EmailText,
      tenant |-> None, model |-> None],
     [request_id |-> None, kind |-> "Prompt", text |-> LongEmailText,
      tenant |-> Some(<<"t">>), model |-> None],
     [request_id |-> None, kind |-> "Prompt", text |-> <<"b">>,
      tenant |-> Some(<<"t">>), model |-> Some(<<"m">>)],
     [request_id |-> None, kind |-> "Prompt", text |-> SemanticText,
      tenant |-> Some(<<"t">>), model |-> None]}

\* the identifiers Uuid::new_v4 may return
FreshIds == {"id1", "id2"}

\* eval with the payload guard (and the PII config it needs) ahead of Stage 1
EvalStage1_GuardFirst(e, req, fresh) ==
    /\ evaler[e].pc = "idle"
    /\ calls < MaxCalls
    /\ calls' = calls + 1
    /\ CanRead
    /\ LET s1 == evaluate_stage1(compiled, req)
           request_id == unwrap_or(req.request_id, fresh)
           large == Len(req.text) > pii.max_bytes
       IN  evaler' = [evaler EXCEPT ![e] =
               [pc |-> IF s1.action = "Block" \/ large THEN "idle" ELSE "stage2",
                req |-> Some(req),
                request_id |-> Some(request_id),
                compiled |-> Some(compiled),
                stage1 |-> Some(s1),
                pii_cfg |-> None,
                resp |-> IF large THEN Some(PayloadTooLarge)
                         ELSE IF s1.action = "Block"
                         THEN Some(BlockResponse(request_id, s1))
                         ELSE None]]
    /\ UNCHANGED <<inner, disk, writer, readers, admin, getter, applied>>

\* eval that draws a new request_id whatever the caller sent
EvalStage1_AlwaysFreshId(e, req, fresh) ==
    /\ evaler[e].pc = "idle"
    /\ calls < MaxCalls
    /\ calls' = calls + 1
    /\ CanRead
    /\ LET s1 == evaluate_stage1(compiled, req)
       IN  evaler' = [evaler EXCEPT ![e] =
               [pc |-> IF s1.action = "Block" THEN "idle" ELSE "stage2",
                req |-> Some(req),
                request_id |-> Some(fresh),
                compiled |-> Some(compiled),
                stage1 |-> Some(s1),
                pii_cfg |-> None,
                resp |-> IF s1.action = "Block"
                         THEN Some(BlockResponse(fresh, s1))
                         ELSE None]]
    /\ UNCHANGED <<inner, disk, writer, readers, admin, getter, applied>>

\* eval is called with req: request_id = req.request_id.unwrap_or_else(new_v4).
\* Stage 1: compiled = st.store.compiled_snapshot().await (the read guard is
\* taken and dropped inside the call), evaluate_stage1, and the block response
EvalStage1(e, req, fresh) ==
    /\ evaler[e].pc = "idle"
    /\ calls < MaxCalls
    /\ calls' = calls + 1
    /\ CanRead
    /\ LET s1 == evaluate_stage1(compiled, req)
           request_id == unwrap_or(req.request_id, fresh)
       IN  evaler' = [evaler EXCEPT ![e] =
               [pc |-> IF s1.action = "Block" THEN "idle" ELSE "stage2",
                req |-> Some(req),
                request_id |-> Some(request_id),
                compiled |-> Some(compiled),
                stage1 |-> Some(s1),
                pii_cfg |-> None,
                resp |-> IF s1.action = "Block"
                         THEN Some(BlockResponse(request_id, s1))
                         ELSE None]]
    /\ UNCHANGED <<inner, disk, writer, readers, admin, getter, applied>>

\* pii_cfg = st.store.pii_config().await (a read guard of its own), then the
\* payload guard, Stage 2 and the allow response
EvalStage2(e) ==
    /\ evaler[e].pc = "stage2"
    /\ CanRead
    /\ evaler' = [evaler EXCEPT
           ![e].pc = "idle",
           ![e].pii_cfg = Some(pii),
           ![e].resp = Some(Stage2Response(evaler[e].request_id[1],
                                           evaler[e].req[1],
                                           evaler[e].stage1[1], pii))]
    /\ UNCHANGED <<inner, disk, writer, readers, admin, getter, applied, calls>>

Next ==
    \/ \E a \in Admins : \E policy \in Policies : ApplyCall(a, policy)
    \/ \E a \in Admins : ApplyLock(a)
    \/ \E a \in Admins : ApplySetRules(a)
    \/ \E a \in Admins : ApplySetPii(a)
    \/ \E a \in Admins : ApplySetCompiled(a)
    \/ \E a \in Admins : ApplySetSemanticCfg(a)
    \/ \E a \in Admins : ApplySetSemantic(a)
    \/ \E a \in Admins : \E io_ok \in BOOLEAN : ApplyCreateDir(a, io_ok)
    \/ \E a \in Admins : \E io \in {"ok", "failed", "failed_partial"} : ApplyWrite(a, io)
    \/ \E g \in Getters : GetLock(g)
    \/ \E g \in Getters : GetCloneRules(g)
    \/ \E g \in Getters : GetClonePii(g)
    \/ \E g \in Getters : GetCloneSemantic(g)
    \/ \E e \in Evals : \E req \in Requests : \E fresh \in FreshIds : EvalStage1(e, req, fresh)
    \/ \E e \in Evals : EvalStage2(e)

Spec == Init /\ [][Next]_vars

\* ------------------------------------------------------------------------
\* Stage 2 on its own: requests with texts of every shape under a fixed policy
\* ------------------------------------------------------------------------
\* number of fragments a text is made of
MaxParts == 2

\* a card number that passes the Luhn check, written with a separator, and
\* one that fails it (the sum of its digits is a multiple of 10, the Luhn sum
\* is not)
CardValid == <<"0", "0", "0", "0", "0", "0", "0", "0", "0", "-", "0", "0", "1", "8">>
CardInvalid == <<"0", "0", "0", "0", "0", "0", "0", "0", "0", "0", "0", "1", "9">>

\* what the texts are made of: card numbers, addresses with an octet in and
\* out of range between spaces, an e-mail address and the end of one
Fragments ==
    {CardValid, CardInvalid,
     <<" ", "1", ".", "1", ".", "1", ".", "1", " ">>,
     <<" ", "2", "5", "6", ".", "1", ".", "1", ".", "1", " ">>,
     <<"@", "a", ".", "a", "a">>,
     <<"a", "@", "a", ".", "a", "a", " ">>}

RECURSIVE Concat(_)
Concat(parts) == IF parts = <<>> THEN <<>> ELSE Head(parts) \o Concat(Tail(parts))

DetectTexts ==
    {Concat(parts) : parts \in UNION {[1..n -> Fragments] : n \in 1..MaxParts}}

DetectRequests ==
    {[request_id |-> Some("id0"), kind |-> "Response", text |-> t,
      tenant |-> None, model |-> None] : t \in DetectTexts}

\* the policies of the store: no rules; every set of detectors, findings
\* exposed or not; and, with every detector on, the stage enabled or not, for
\* prompts or for responses, in either mode
DetectPolicies ==
    {[rules |-> <<>>,
      pii |-> [PiiConfigDefault EXCEPT !.redaction_token = <<"X">>,
                                       !.detectors = d,
                                       !.include_findings = f],
      semantic |-> SemanticConfigDefault] :
        d \in [email : BOOLEAN, ip : BOOLEAN, credit_card : BOOLEAN,
               phone : BOOLEAN],
        f \in BOOLEAN}
    \cup
    {[rules |-> <<>>,
      pii |-> [enabled |-> en, applies_to |-> at, mode |-> mo,
               redaction_token |-> <<"X">>,
               detectors |-> [email |-> TRUE, ip |-> TRUE,
                              credit_card |-> TRUE, phone |-> TRUE],
               max_bytes |-> DefaultMaxBytes, include_findings |-> TRUE],
      semantic |-> SemanticConfigDefault] :
        en \in BOOLEAN, at \in {"Prompt", "Response"}, mo \in PiiModeVariants}

\* the process starts on the document of one of the policies
InitDetect ==
    /\ disk \in {to_string(policy) : policy \in DetectPolicies}
    /\ load(disk).ok
    /\ rules = load(disk).val.rules
    /\ compiled = load(disk).val.compiled
    /\ pii = load(disk).val.pii
    /\ semantic_cfg = load(disk).val.semantic_cfg
    /\ semantic = load(disk).val.semantic
    /\ writer = None
    /\ readers = {}
    /\ admin = [a \in Admins |-> AdminIdle]
    /\ getter = [g \in Getters |-> GetterIdle]
    /\ evaler = [e \in Evals |-> EvalIdle]
    /\ applied = {[rules |-> load(disk).val.rules, pii |-> load(disk).val.pii,
                   semantic |-> load(disk).val.semantic_cfg]}
    /\ calls = 0

\* one request for each behaviour
NextDetect ==
    \/ \E e \in Evals : \E req \in DetectRequests : \E fresh \in FreshIds :
          calls = 0 /\ EvalStage1(e, req, fresh)
    \/ \E e \in Evals : EvalStage2(e)

SpecDetect == InitDetect /\ [][NextDetect]_vars

\* ------------------------------------------------------------------------
\* The same request more than once: two eval handlers, a policy fixed at startup
\* ------------------------------------------------------------------------
RepeatEvals == {"eval1", "eval2"}

\* the process starts on one of two documents
InitRepeat ==
    /\ disk \in {DocumentByHand, to_string(PolicyAllowlist)}
    /\ load(disk).ok
    /\ rules = load(disk).val.rules
    /\ compiled = load(disk).val.compiled
    /\ pii = load(disk).val.pii
    /\ semantic_cfg = load(disk).val.semantic_cfg
    /\ semantic = load(disk).val.semantic
    /\ writer = None
    /\ readers = {}
    /\ admin = [a \in Admins |-> AdminIdle]
    /\ getter = [g \in Getters |-> GetterIdle]
    /\ evaler = [e \in RepeatEvals |-> EvalIdle]
    /\ applied = {[rules |-> load(disk).val.rules, pii |-> load(disk).val.pii,
                   semantic |-> load(disk).val.semantic_cfg]}
    /\ calls = 0

\* no policy is applied: the handlers evaluate under the policy of startup
NextRepeat ==
    \/ \E e \in RepeatEvals : \E req \in Requests : \E fresh \in FreshIds :
          EvalStage1(e, req, fresh)
    \/ \E e \in RepeatEvals : EvalStage2(e)

SpecRepeat == InitRepeat /\ [][NextRepeat]_vars

\* ------------------------------------------------------------------------
\* Startup: main calls RuleStore::load on the file at policy_path
\* ------------------------------------------------------------------------
\* number of rules of a document
MaxDocRules == 2

\* a semantic section with the n-gram range 1..2 and an example of four
\* characters
SemanticShortGrams ==
    [enabled |-> TRUE, applies_to |-> "Both", action |-> "Block",
     threshold |-> 88,
     cases |-> <<[id |-> <<"b">>, description |-> None,
                  examples |-> <<[text |-> <<"B", "b", " ", "b">>,
                                  embedding |-> Some(<<1, 2>>)]>>]>>,
     ngram_min |-> Some(1), ngram_max |-> Some(2)]

\* the rule nodes of the documents: rules that compile, rules that do not,
\* and an action that no variant spells
DocRules ==
    {ser_rule(RuleBlockA), ser_rule(RuleAllowB), ser_rule(RuleEmptyKeywords),
     ser_rule(RuleBadRegex), [ser_rule(RuleBlockA) EXCEPT !.action = "deny"]}

\* the files at policy_path: none, a truncated one, one that is no text, and
\* documents with and without a pii and a semantic section
LoadFiles ==
    {MissingFile, PartialFile, UnreadableFile} \cup
    {[kind |-> "document", rules |-> rs, pii |-> pi, semantic |-> se] :
        rs \in UNION {[1..n -> DocRules] : n \in 0..MaxDocRules},
        pi \in {None, Some(ser_pii(PolicyAllowlist.pii)),
                Some([ser_pii(PolicyAllowlist.pii) EXCEPT !.mode = "mask"])},
        se \in {None, Some(ser_semantic(PolicyAllowlist.semantic)),
                Some(ser_semantic(SemanticShortGrams))}}

\* before load has returned there is no store (applied is empty)
InitLoad ==
    /\ disk \in LoadFiles
    /\ rules = None
    /\ compiled = None
    /\ pii = None
    /\ semantic_cfg = None
    /\ semantic = None
    /\ writer = None
    /\ readers = {}
    /\ admin = [a \in Admins |-> AdminIdle]
    /\ getter = [g \in Getters |-> GetterIdle]
    /\ evaler = [e \in Evals |-> EvalIdle]
    /\ applied = {}
    /\ calls = 0

\* RuleStore::load(policy_path): Ok(Self) with the fields of Inner, or the
\* error, on which main returns
Load ==
    /\ calls = 0
    /\ applied = {}
    /\ calls' = 1
    /\ LET r == load(disk)
       IN  IF r.ok
           THEN /\ rules' = r.val.rules
                /\ compiled' = r.val.compiled
                /\ pii' = r.val.pii
                /\ semantic_cfg' = r.val.semantic_cfg
                /\ semantic' = r.val.semantic
                /\ applied' = {[rules |-> r.val.rules, pii |-> r.val.pii,
                                semantic |-> r.val.semantic_cfg]}
           ELSE UNCHANGED <<inner, applied>>
    /\ UNCHANGED <<disk, writer, readers, admin, getter, evaler>>

NextLoad == Load

SpecLoad == InitLoad /\ [][NextLoad]_vars

\* ------------------------------------------------------------------------
\* eval, one step for each snapshot and for each stage that runs on it
\* ------------------------------------------------------------------------
\* eval is called with req; compiled = st.store.compiled_snapshot().await: the
\* read guard is taken, Inner.compiled is cloned, the guard is dropped
EvalSnapshot(e, req, fresh) ==
    /\ evaler[e].pc = "idle"
    /\ calls < MaxCalls
    /\ calls' = calls + 1
    /\ CanRead
    /\ evaler' = [evaler EXCEPT ![e] =
           [pc |-> "match",
            req |-> Some(req),
            request_id |-> Some(unwrap_or(req.request_id, fresh)),
            compiled |-> Some(compiled),
            stage1 |-> None,
            pii_cfg |-> None,
            resp |-> None]]
    /\ UNCHANGED <<inner, disk, writer, readers, admin, getter, applied>>

\* evaluate_stage1(&compiled, &req) on the clone, and the block response
EvalMatch(e) ==
    /\ evaler[e].pc = "match"
    /\ LET s1 == evaluate_stage1(evaler[e].compiled[1], evaler[e].req[1])
       IN  evaler' = [evaler EXCEPT
               ![e].pc = IF s1.action = "Block" THEN "idle" ELSE "stage2",
               ![e].stage1 = Some(s1),
               ![e].resp = IF s1.action = "Block"
                           THEN Some(BlockResponse(evaler[e].request_id[1], s1))
                           ELSE None]
    /\ UNCHANGED <<inner, disk, writer, readers, admin, getter, applied, calls>>

\* pii_cfg = st.store.pii_config().await: guard taken, Inner.pii cloned,
\* guard dropped
EvalReadPii(e) ==
    /\ evaler[e].pc = "stage2"
    /\ CanRead
    /\ evaler' = [evaler EXCEPT ![e].pc = "respond", ![e].pii_cfg = Some(pii)]
    /\ UNCHANGED <<inner, disk, writer, readers, admin, getter, applied, calls>>

\* the rest of eval that reads Inner.pii again under a read guard
EvalRespond_UnderGuard(e) ==
    /\ evaler[e].pc = "respond"
    /\ CanRead
    /\ evaler' = [evaler EXCEPT
           ![e].pc = "idle",
           ![e].resp = Some(Stage2Response(evaler[e].request_id[1],
                                           evaler[e].req[1],
                                           evaler[e].stage1[1], pii))]
    /\ UNCHANGED <<inner, disk, writer, readers, admin, getter, applied, calls>>

\* the payload guard, Stage 2 and the allow response, on the clone
EvalRespond(e) ==
    /\ evaler[e].pc = "respond"
    /\ evaler' = [evaler EXCEPT
           ![e].pc = "idle",
           ![e].resp = Some(Stage2Response(evaler[e].request_id[1],
                                           evaler[e].req[1],
                                           evaler[e].stage1[1],
                                           evaler[e].pii_cfg[1]))]
    /\ UNCHANGED <<inner, disk, writer, readers, admin, getter, applied, calls>>

\* the policies applied and the requests (those with a short text) evaluated
\* while the lock is watched
LockPolicies == {PolicyAllowlist, PolicyBadRegex}
LockRequests == {req \in Requests : Len(req.text) <= 3}

NextLock ==
    \/ \E a \in Admins : \E policy \in LockPolicies : ApplyCall(a, policy)
    \/ \E a \in Admins : ApplyLock(a)
    \/ \E a \in Admins : ApplySetRules(a)
    \/ \E a \in Admins : ApplySetPii(a)
    \/ \E a \in Admins : ApplySetCompiled(a)
    \/ \E a \in Admins : ApplySetSemanticCfg(a)
    \/ \E a \in Admins : ApplySetSemantic(a)
    \/ \E a \in Admins : \E io_ok \in BOOLEAN : ApplyCreateDir(a, io_ok)
    \/ \E a \in Admins : \E io \in {"ok", "failed", "failed_partial"} : ApplyWrite(a, io)
    \/ \E e \in Evals : \E req \in LockRequests : \E fresh \in FreshIds :
          EvalSnapshot(e, req, fresh)
    \/ \E e \in Evals : EvalMatch(e)
    \/ \E e \in Evals : EvalReadPii(e)
    \/ \E e \in Evals : EvalRespond(e)

SpecLock == Init /\ [][NextLock]_vars

\* ------------------------------------------------------------------------
\* Concurrent applies: every admin handler makes one call of apply_policy
\* ------------------------------------------------------------------------
NextApply ==
    \/ \E a \in Admins : \E policy \in Policies :
          admin[a].policy = None /\ ApplyCall(a, policy)
    \/ \E a \in Admins : ApplyLock(a)
    \/ \E a \in Admins : ApplySetRules(a)
    \/ \E a \in Admins : ApplySetPii(a)
    \/ \E a \in Admins : ApplySetCompiled(a)
    \/ \E a \in Admins : ApplySetSemanticCfg(a)
    \/ \E a \in Admins : ApplySetSemantic(a)
    \/ \E a \in Admins : \E io_ok \in BOOLEAN : ApplyCreateDir(a, io_ok)
    \/ \E a \in Admins : \E io \in {"ok", "failed", "failed_partial"} : ApplyWrite(a, io)

SpecApply == Init /\ [][NextApply]_vars

\* ------------------------------------------------------------------------
\* semantic.rs: evaluate
\* ------------------------------------------------------------------------
\* the sum of the values of a function with a finite domain
RECURSIVE SumOf(_)
SumOf(f) ==
    IF DOMAIN f = {} THEN 0
    ELSE LET k == CHOOSE x \in DOMAIN f : TRUE
         IN  f[k] + SumOf([x \in DOMAIN f \ {k} |-> f[x]])

\* The cosine of two bucket vectors.  It does not change when a vector is
\* divided by its norm (sparse_to_dense), and no component is negative, so
\* the score is kept as the fraction num / den of its square:
\* dot^2 / (norm_a^2 * norm_b^2), and 0 when one of the norms is 0.
cosine_similarity(a, b) ==
    LET dot == SumOf([k \in DOMAIN a \cap DOMAIN b |-> a[k] * b[k]])
        norm_a == SumOf([k \in DOMAIN a |-> a[k] * a[k]])
        norm_b == SumOf([k \in DOMAIN b |-> b[k] * b[k]])
    IN  IF norm_a = 0 \/ norm_b = 0 THEN [num |-> 0, den |-> 1]
        ELSE [num |-> dot * dot, den |-> norm_a * norm_b]

\* score > *best_score
ScoreGreater(s, t) == s.num * t.den > t.num * s.den

\* score >= compiled.threshold, the threshold in hundredths
ScoreAtLeast(s, threshold) == s.num * 10000 >= threshold * threshold * s.den

\* the examples of all cases in the order of the two loops of evaluate
RECURSIVE AllExamples(_)
AllExamples(cases) ==
    IF cases = <<>> THEN <<>>
    ELSE [i \in 1..Len(Head(cases).examples) |->
              [case_id |-> Head(cases).id, ex |-> Head(cases).examples[i]]]
         \o AllExamples(Tail(cases))

\* the loops of evaluate: the first example with the highest score
RECURSIVE best_loop(_, _, _)
best_loop(exs, input_embedding, best) ==
    IF exs = <<>> THEN best
    ELSE LET score == cosine_similarity(input_embedding, Head(exs).ex.ngram_vec)
             is_better == best = None \/ ScoreGreater(score, best[1].score)
         IN  best_loop(Tail(exs), input_embedding,
                       IF is_better
                       THEN Some([case_id |-> Head(exs).case_id, score |-> score,
                                  ex |-> Head(exs).ex.text])
                       ELSE best)

\* evaluate(compiled, kind, text) with sem for compiled: the best match if its score reaches the
\* threshold; the input is vectorized with the n-gram range 3..5
evaluate(sem, kind, text) ==
    IF ~sem.enabled THEN None
    ELSE IF ~applies(sem.applies_to, kind) THEN None
    ELSE LET input_embedding == NgramCounts(text, 3, 5)
             best == best_loop(AllExamples(sem.cases), input_embedding, None)
         IN  IF best # None /\ ScoreAtLeast(best[1].score, sem.threshold)
             THEN best
             ELSE None

\* ------------------------------------------------------------------------
\* Properties
\* ------------------------------------------------------------------------
\* the step in which apply_policy of admin a returns
ApplyReturns(a) == admin'[a] # admin[a] /\ admin'[a].pc = "idle"
\* the step in which eval of handler e sends its response
EvalResponds(e) == evaler'[e] # evaler[e] /\ evaler'[e].pc = "idle"

\* C1: the compiled rules used in Stage 1 and the PII config used for the
\* payload guard and Stage 2 of one request come from the same applied
\* policy: once a request has read its PII config, some policy that has been
\* the active one has both these rules and this config.
C1_OnePolicyPerRequest ==
    \A e \in Evals :
        evaler[e].pii_cfg # None =>
            \E p \in applied :
                /\ compile_all(p.rules).ok
                /\ evaler[e].compiled[1] = compile_all(p.rules).val
                /\ evaler[e].pii_cfg[1] = p.pii

\* C2: a get_policy that runs concurrently with apply_policy returns a policy
\* that has been the complete active policy (the old or the new one), never a
\* mix of the fields of two.
C2_GetPolicyAtomic ==
    \A g \in Getters : getter[g].ret # None => getter[g].ret[1] \in applied

\* a get_policy has returned the policy of an apply that was waiting for the
\* lock while the get held its read guard (two policies have been active)
C2_Witness ==
    \E g \in Getters : \E a \in Admins :
        /\ getter[g].ret # None
        /\ admin[a].ret = Some(Ok("applied"))
        /\ getter[g].ret[1] = admin[a].policy[1]
        /\ Cardinality(applied) = 2

\* C3: when apply_policy(P) returns Ok, get_policy returns P (the rules in
\* document order, pii, semantic) and the document on disk deserializes to P.
C3_WriteThrough ==
    [][\A a \in Admins :
          (ApplyReturns(a) /\ admin'[a].ret[1].ok) =>
              /\ ActivePolicy' = admin'[a].policy[1]
              /\ from_str(disk').ok
              /\ from_str(disk').val = admin'[a].policy[1]]_vars

\* a policy with a regex expression whose pattern is not a valid pattern
HasInvalidPattern(policy) ==
    \E i \in 1..Len(policy.rules) :
        \E k \in 1..Len(policy.rules[i].when.any) :
            LET expr == policy.rules[i].when.any[k]
            IN  expr.type = "regex" /\ \E n \in 1..Len(expr.pattern) : expr.pattern[n] = "("

\* C4: applying a policy that fails to compile is a no-op: the call returns
\* an error in the step that compiles, and the active policy, the compiled
\* and semantic snapshots and the document on disk are what they were.
C4_CompileFailureIsNoOp ==
    [][\A a \in Admins :
          (/\ admin[a].pc = "idle"
           /\ admin'[a] # admin[a]
           /\ HasInvalidPattern(admin'[a].policy[1])) =>
              /\ admin'[a].pc = "idle"
              /\ ~admin'[a].ret[1].ok
              /\ StoreState' = StoreState]_vars

\* a policy with an invalid pattern has been rejected by a store whose policy
\* an earlier apply had installed and persisted
C4_Witness ==
    \E a \in Admins :
        /\ admin[a].policy # None
        /\ HasInvalidPattern(admin[a].policy[1])
        /\ admin[a].ret = Some(Err("compile"))
        /\ ActivePolicy \in Policies
        /\ disk = to_string(ActivePolicy)
        /\ admin[a].before = Some(StoreState)

\* C5: whenever apply_policy returns an error, whatever the reason, the
\* in-memory policy and the document on disk are what they were before the
\* call (when it took the write lock, or when it was made if it never did).
C5_AnyErrorIsNoOp ==
    [][\A a \in Admins :
          (ApplyReturns(a) /\ ~admin'[a].ret[1].ok) =>
              /\ ActivePolicy' = admin'[a].before[1].policy
              /\ disk' = admin'[a].before[1].disk]_vars

\* C6: the ids of the rules of the active policy are unique in every state a
\* reader can see: a policy with two rules of the same id is never applied.
C6_RuleIdsUnique ==
    writer = None =>
        \A i \in 1..Len(rules) : \A j \in 1..Len(rules) :
            i # j => rules[i].id # rules[j].id

\* the compiled rule c is the compiled form of the rule r
CompiledFrom(c, r) ==
    /\ c.id = r.id
    /\ c.description = r.description
    /\ c.applies_to = r.applies_to
    /\ c.action = r.action
    /\ c.priority = r.priority
    /\ Len(c.when_any) = Len(r.when.any)
    /\ \A k \in 1..Len(c.when_any) :
          /\ c.when_any[k].type = r.when.any[k].type
          /\ c.when_any[k].field = r.when.any[k].field

\* C7: whenever compiled_snapshot() can take the read lock, the compiled list
\* is sorted by (priority ascending, id ascending) and holds exactly one
\* compiled rule per rule of the active policy.
C7_CompiledSortedOnePerRule ==
    writer = None =>
        /\ \A i \in 1..Len(compiled) : \A j \in 1..Len(compiled) :
              i < j =>
                  \/ compiled[i].priority < compiled[j].priority
                  \/ /\ compiled[i].priority = compiled[j].priority
                     /\ ~StrLess(compiled[j].id, compiled[i].id)
        /\ Len(compiled) = Len(rules)
        /\ \E f \in Permutations(1..Len(rules)) :
              \A i \in 1..Len(rules) : CompiledFrom(compiled[f[i]], rules[i])

\* the active policy lists rule B before rule A and its compiled list starts
\* with A
C7_Witness ==
    /\ writer = None
    /\ Len(rules) = 3
    /\ rules[1].id = <<"B">> /\ rules[2].id = <<"A">>
    /\ compiled[1].id = <<"A">> /\ compiled[2].id = <<"B">>

\* the compiled rules of a snapshot that apply to the request and match it
MatchingRules(cs, req) ==
    {i \in 1..Len(cs) :
        /\ applies(cs[i].applies_to, req.kind)
        /\ \E k \in 1..Len(cs[i].when_any) : match_one(cs[i].when_any[k], req)}

\* C8: Stage 1 is first-match-wins: its result is taken from a rule that is
\* smallest in (priority, id) order among the rules of the snapshot that
\* apply to the request kind and match (action, id as matched_rule,
\* description or "matched" as reason), and it is allow with no matched rule
\* if there is no such rule.
C8_FirstMatchWins ==
    \A e \in Evals :
        evaler[e].stage1 # None =>
            LET cs == evaler[e].compiled[1]
                req == evaler[e].req[1]
                s1 == evaler[e].stage1[1]
                M == MatchingRules(cs, req)
            IN  IF M = {}
                THEN s1 = [action |-> "Allow", matched_rule |-> None,
                           reason |-> None]
                ELSE \E i \in M :
                        /\ \A j \in M : ~RuleLess(cs[j], cs[i])
                        /\ s1.action = cs[i].action
                        /\ s1.matched_rule = Some(cs[i].id)
                        /\ s1.reason = IF cs[i].description = None
                                       THEN Some(Matched)
                                       ELSE cs[i].description

\* Stage 1 has returned the block of rule A, which has no description, for a
\* request that the allow rule B, later in the order, matches as well
C8_Witness ==
    \E e \in Evals :
        /\ evaler[e].stage1 # None
        /\ Cardinality(MatchingRules(evaler[e].compiled[1], evaler[e].req[1])) = 2
        /\ evaler[e].stage1[1] = [action |-> "Block", matched_rule |-> Some(<<"A">>),
                                  reason |-> Some(Matched)]

\* C9: if Stage 1 returns block, the response is the block response, with
\* output_text and pii absent, whatever the size of the text and the PII in it.
C9_BlockHasNoOutput ==
    \A e \in Evals :
        (evaler[e].stage1 # None /\ evaler[e].stage1[1].action = "Block") =>
            /\ evaler[e].resp # None
            /\ evaler[e].resp[1].status = 200
            /\ evaler[e].resp[1].action = "Block"
            /\ evaler[e].resp[1].matched_rule = evaler[e].stage1[1].matched_rule
            /\ evaler[e].resp[1].output_text = None
            /\ evaler[e].resp[1].pii = None

\* a request has been blocked whose text is an e-mail address longer than
\* max_bytes, under a policy whose PII stage would have redacted it
C9_Witness ==
    \E e \in Evals :
        /\ evaler[e].resp # None
        /\ evaler[e].resp[1].status = 200
        /\ evaler[e].resp[1].action = "Block"
        /\ evaler[e].req[1].text = LongEmailText
        /\ detect(LongEmailText) # <<>>
        /\ writer = None
        /\ evaler[e].compiled[1] = compiled
        /\ Len(LongEmailText) > pii.max_bytes
        /\ pii.enabled /\ pii.detectors.email /\ pii.mode = "Redact"
        /\ applies(pii.applies_to, evaler[e].req[1].kind)

\* C10 as stated: every request whose text is longer than pii.max_bytes of
\* the active policy is answered with 413, whatever the rules are.
C10_LargePayloadAlways413 ==
    [][\A e \in Evals :
          (EvalResponds(e) /\ Len(evaler'[e].req[1].text) > pii.max_bytes) =>
              evaler'[e].resp[1] = PayloadTooLarge]_vars

\* C10, amended: a request that Stage 1 does not block and whose text is
\* longer than max_bytes of the PII config the request reads is answered
\* with 413: no allow decision and no redacted text is returned for it.
C10_LargePayloadUnlessBlocked ==
    \A e \in Evals :
        (/\ evaler[e].pii_cfg # None
         /\ Len(evaler[e].req[1].text) > evaler[e].pii_cfg[1].max_bytes) =>
            evaler[e].resp = Some(PayloadTooLarge)

\* a request that no rule blocks has been answered with 413 under a PII
\* config whose stage does not apply to the kind of the request
C10_Witness ==
    \E e \in Evals :
        /\ evaler[e].resp = Some(PayloadTooLarge)
        /\ evaler[e].stage1[1].action = "Allow"
        /\ evaler[e].pii_cfg # None
        /\ ~applies(evaler[e].pii_cfg[1].applies_to, evaler[e].req[1].kind)

\* C11: Stage 1.5 is a stage of eval.  A request that Stage 1 does not block
\* and whose text passes the payload guard, evaluated with the rules of the
\* active policy while the semantic stage of the store is enabled, applies to the kind of the request, has
\* the action block and finds a case whose score reaches the threshold, is
\* answered with a block whose matched_rule is the id of that case.
C11_SemanticStageBlocks ==
    [][\A e \in Evals :
          (/\ EvalResponds(e)
           /\ evaler'[e].stage1[1].action # "Block"
           /\ evaler'[e].compiled[1] = compiled
           /\ evaler'[e].pii_cfg # None
           /\ Len(evaler'[e].req[1].text) <= evaler'[e].pii_cfg[1].max_bytes
           /\ semantic.action = "Block"
           /\ evaluate(semantic, evaler'[e].req[1].kind,
                       evaler'[e].req[1].text) # None) =>
              /\ evaler'[e].resp[1].status = 200
              /\ evaler'[e].resp[1].action = "Block"
              /\ evaler'[e].resp[1].matched_rule =
                     Some(evaluate(semantic, evaler'[e].req[1].kind,
                                   evaler'[e].req[1].text)[1].case_id)]_vars

\* C12: every response whose action is allow has matched_rule null and
\* reason null, also when an allow rule matched in Stage 1.
C12_AllowHasNoMatchedRule ==
    \A e \in Evals :
        (/\ evaler[e].resp # None
         /\ evaler[e].resp[1].status = 200
         /\ evaler[e].resp[1].action = "Allow") =>
            /\ evaler[e].resp[1].matched_rule = None
            /\ evaler[e].resp[1].reason = None

\* C13: when the first rule of the snapshot, in (priority, id) order, that
\* applies to the request and matches it is an allow rule, Stage 1 ends with
\* allow and that rule, whatever block rules match later in the order; the
\* request then goes through the payload guard (413 for an oversize text)
\* and Stage 2 (a text with findings of enabled detectors is redacted).
C13_AllowShortCircuits ==
    \A e \in Evals :
        evaler[e].stage1 # None =>
            LET cs == evaler[e].compiled[1]
                req == evaler[e].req[1]
                hits == MatchingRules(cs, req)
            IN  \A i \in hits :
                    ((\A j \in hits : i <= j) /\ cs[i].action = "Allow") =>
                        /\ evaler[e].stage1[1].action = "Allow"
                        /\ evaler[e].stage1[1].matched_rule = Some(cs[i].id)
                        /\ \/ evaler[e].pc = "stage2"
                           \/ /\ evaler[e].pii_cfg # None
                              /\ evaler[e].resp # None
                              /\ LET cfg == evaler[e].pii_cfg[1]
                                     resp == evaler[e].resp[1]
                                 IN  IF Len(req.text) > cfg.max_bytes
                                     THEN resp = PayloadTooLarge
                                     ELSE /\ resp.status = 200
                                          /\ resp.action = "Allow"
                                          /\ (/\ cfg.enabled
                                              /\ applies(cfg.applies_to, req.kind)
                                              /\ cfg.mode = "Redact"
                                              /\ \E k \in 1..Len(detect(req.text)) :
                                                    enabled_detector(cfg.detectors,
                                                                     detect(req.text)[k])) =>
                                                 /\ resp.output_text # None
                                                 /\ resp.output_text # Some(req.text)

\* an allow rule has matched ahead of a block rule that matches too, and the
\* response is allow with the e-mail address of the text redacted
C13_Witness ==
    \E e \in Evals :
        /\ evaler[e].resp # None
        /\ evaler[e].resp[1].status = 200
        /\ evaler[e].resp[1].action = "Allow"
        /\ evaler[e].resp[1].output_text = Some(<<"X">>)
        /\ evaler[e].req[1].text = EmailText
        /\ \E i, j \in MatchingRules(evaler[e].compiled[1], evaler[e].req[1]) :
              /\ i < j
              /\ evaler[e].compiled[1][i].action = "Allow"
              /\ evaler[e].compiled[1][j].action = "Block"

\* the span list of a response: the findings of the enabled detectors
Emitted(e) ==
    SelectSeq(detect(evaler[e].req[1].text),
              LAMBDA f : enabled_detector(evaler[e].pii_cfg[1].detectors, f))

\* consecutive findings: f.start < g.start and f.end <= g.start
NonOverlapping(fs) ==
    \A k \in 1..(Len(fs) - 1) :
        fs[k].start < fs[k + 1].start /\ fs[k].end <= fs[k + 1].start

\* C14: for every text, the span list detect returns, the list left of it
\* for the enabled detectors and the list of the response are non-overlapping
\* and strictly increasing in start.
C14_SpansNonOverlapping ==
    \A e \in Evals :
        evaler[e].req # None =>
            /\ NonOverlapping(detect(evaler[e].req[1].text))
            /\ evaler[e].pii_cfg # None => NonOverlapping(Emitted(e))
            /\ (evaler[e].resp # None /\ evaler[e].resp[1].pii # None) =>
                  NonOverlapping(evaler[e].resp[1].pii[1])

\* a response lists two findings of a text in which a third candidate, one
\* that overlaps a finding, was dropped
C14_Witness ==
    \E e \in Evals :
        /\ evaler[e].resp # None
        /\ evaler[e].resp[1].status = 200
        /\ evaler[e].resp[1].pii # None
        /\ Len(evaler[e].resp[1].pii[1]) = 2
        /\ Len(Candidates(evaler[e].req[1].text)) = 3

\* the text from byte offset pos on with every span, given by its offsets in
\* the original text, replaced by spans[k].with: built from left to right
RECURSIVE ReplaceByOffsets(_, _, _)
ReplaceByOffsets(text, spans, pos) ==
    IF spans = <<>> THEN SubSeq(text, pos + 1, Len(text))
    ELSE SubSeq(text, pos + 1, Head(spans).start) \o Head(spans).with
         \o ReplaceByOffsets(text, Tail(spans), Head(spans).end)

\* C15: the redacted text of a response is the request's text with every
\* emitted span replaced by redaction_token and every byte outside the spans
\* kept in order; its length is |T| + the sum over the spans of
\* |token| - (end - start).  The right-to-left replacements of full_mask, with
\* the token of each type, give the text replaced by original offsets too.
C15_RedactionReplacesSpans ==
    \A e \in Evals :
        (evaler[e].resp # None /\ evaler[e].resp[1].status = 200
                               /\ evaler[e].pii_cfg # None) =>
            LET text == evaler[e].req[1].text
                tok == evaler[e].pii_cfg[1].redaction_token
                spans == Emitted(e)
                all == full_mask(text).findings
            IN  /\ evaler[e].resp[1].output_text # None =>
                     /\ evaler[e].resp[1].output_text =
                           Some(ReplaceByOffsets(text,
                                    [k \in 1..Len(spans) |->
                                        [start |-> spans[k].start,
                                         end |-> spans[k].end, with |-> tok]], 0))
                     /\ Len(evaler[e].resp[1].output_text[1]) =
                           Len(text) + SumOf([k \in 1..Len(spans) |->
                                        Len(tok) - (spans[k].end - spans[k].start)])
                /\ full_mask(text).masked =
                      ReplaceByOffsets(text,
                          [k \in 1..Len(all) |->
                              [start |-> all[k].start, end |-> all[k].end,
                               with |-> token(all[k].pii_type)]], 0)

\* a text with two findings has been redacted: the token twice and the
\* bytes around the findings
C15_Witness ==
    \E e \in Evals :
        /\ evaler[e].resp # None
        /\ evaler[e].resp[1].status = 200
        /\ Len(Emitted(e)) = 2
        /\ evaler[e].resp[1].output_text = Some(<<"X", " ", " ", "X", " ">>)

\* the overlap resolution of the candidates of the enabled types only
ResolvedAmongEnabled(e) ==
    merge_overlaps(sort_findings(
        SelectSeq(Candidates(evaler[e].req[1].text),
                  LAMBDA f : enabled_detector(evaler[e].pii_cfg[1].detectors, f))))

\* C16: the findings redacted in a response are the overlap resolution of
\* the candidates of the enabled detector types only: a candidate of a type
\* that is switched off makes no candidate of an enabled type go unredacted.
C16_DisabledTypesDoNotInterfere ==
    \A e \in Evals :
        (evaler[e].resp # None /\ evaler[e].resp[1].status = 200
                               /\ evaler[e].pii_cfg # None
                               /\ evaler[e].pii_cfg[1].enabled
                               /\ evaler[e].pii_cfg[1].mode = "Redact"
                               /\ applies(evaler[e].pii_cfg[1].applies_to,
                                          evaler[e].req[1].kind)) =>
            /\ Emitted(e) = ResolvedAmongEnabled(e)
            /\ evaler[e].resp[1].output_text =
                  IF ResolvedAmongEnabled(e) = <<>> THEN None
                  ELSE Some(redact(evaler[e].req[1].text, ResolvedAmongEnabled(e),
                                   evaler[e].pii_cfg[1].redaction_token))

\* the Luhn sum of a digit string: every second digit from the right, the
\* last one not, counts as the digit sum of its double
LuhnSum(digits) ==
    SumOf([k \in 1..Len(digits) |->
              LET d == DigitValue(digits[k])
              IN  IF (Len(digits) - k) % 2 = 0 THEN d
                  ELSE IF 2 * d > 9 THEN 2 * d - 9 ELSE 2 * d])

\* the value of a string of decimal digits
DecimalValue(p) ==
    SumOf([k \in 1..Len(p) |-> DigitValue(p[k]) * 10 ^ (Len(p) - k)])

\* the octets of a dotted address: the maximal runs of digits
Octets(s) ==
    {SubSeq(s, a, b) : <<a, b>> \in
        {<<a, b>> \in (1..Len(s)) \X (1..Len(s)) :
            /\ a <= b
            /\ \A k \in a..b : s[k] \in Digit
            /\ a = 1 \/ s[a - 1] \notin Digit
            /\ b = Len(s) \/ s[b + 1] \notin Digit}}

\* C17: every CreditCard finding detect emits has 13 to 19 digits once the
\* separators are removed, and they pass the Luhn check; every Ip finding is
\* four octets, each at most 255.
C17_CardsLuhnValidOctetsInRange ==
    \A e \in Evals :
        evaler[e].req # None =>
            LET fs == detect(evaler[e].req[1].text)
            IN  \A k \in 1..Len(fs) :
                    /\ fs[k].pii_type = "CreditCard" =>
                          LET digits == SelectSeq(fs[k].text,
                                                  LAMBDA c : c \notin Separator)
                          IN  /\ Len(digits) \in 13..19
                              /\ \A n \in 1..Len(digits) : digits[n] \in Digit
                              /\ LuhnSum(digits) % 10 = 0
                    /\ fs[k].pii_type = "Ip" =>
                          /\ Cardinality({n \in 1..Len(fs[k].text) :
                                             fs[k].text[n] = "."}) = 3
                          /\ \A o \in Octets(fs[k].text) : DecimalValue(o) <= 255

\* a response lists a credit card written with a separator; the number that
\* fails the Luhn check is a candidate of the pattern and no credit-card
\* finding, the address with the octet 256 is a candidate and no finding
C17_Witness ==
    \E e \in Evals :
        /\ evaler[e].resp # None
        /\ evaler[e].resp[1].status = 200
        /\ evaler[e].resp[1].pii # None
        /\ \E k \in 1..Len(evaler[e].resp[1].pii[1]) :
              /\ evaler[e].resp[1].pii[1][k].entity_type = "CreditCard"
              /\ evaler[e].resp[1].pii[1][k].text = CardValid
        /\ CcMatches(CardInvalid) # <<>>
        /\ \A k \in 1..Len(detect(CardInvalid)) :
              detect(CardInvalid)[k].pii_type # "CreditCard"
        /\ Ipv4Matches(<<" ", "2", "5", "6", ".", "1", ".", "1", ".", "1", " ">>) # <<>>
        /\ detect(<<" ", "2", "5", "6", ".", "1", ".", "1", ".", "1", " ">>) = <<>>
        /\ Len(detect(<<" ", "1", ".", "1", ".", "1", ".", "1", " ">>)) = 1

\* C18: the pii list of a response, which carries the matched substrings, is
\* present only if include_findings of the PII config the request read is
\* true and a finding of an enabled detector remains; with include_findings
\* false no response has a pii list.
C18_FindingsOnlyOnRequest ==
    \A e \in Evals :
        (evaler[e].resp # None /\ evaler[e].resp[1].status = 200) =>
            /\ evaler[e].resp[1].pii # None =>
                  /\ evaler[e].pii_cfg # None
                  /\ evaler[e].pii_cfg[1].include_findings
                  /\ Emitted(e) # <<>>
                  /\ Len(evaler[e].resp[1].pii[1]) = Len(Emitted(e))
            /\ (evaler[e].pii_cfg # None
                    /\ ~evaler[e].pii_cfg[1].include_findings) =>
                  evaler[e].resp[1].pii = None

\* a text with a finding has been redacted under a config with
\* include_findings false: the response has the redacted text and no pii list
C18_Witness ==
    \E e \in Evals :
        /\ evaler[e].resp # None
        /\ evaler[e].resp[1].status = 200
        /\ ~evaler[e].pii_cfg[1].include_findings
        /\ Emitted(e) # <<>>
        /\ evaler[e].resp[1].output_text # None
        /\ evaler[e].resp[1].pii = None

\* the response of a handler that has answered, without its request_id
ExceptRequestId(resp) ==
    IF resp.status = 200 THEN [resp EXCEPT !.request_id = None] ELSE resp

HasMalformedExpr(policy) ==
    \E i \in 1..Len(policy.rules) :
        \E k \in 1..Len(policy.rules[i].when.any) :
            LET expr == policy.rules[i].when.any[k]
            IN  \/ expr.type = "regex"
                      /\ \E n \in 1..Len(expr.pattern) : expr.pattern[n] = "("
                \/ expr.type = "keywords" /\ expr.values = <<>>

\* C20: a policy in which some rule has a regex expression with an invalid
\* pattern or a keywords expression with an empty values list does not
\* compile: apply_policy returns an error in the step that compiles and the
\* store is what it was.
C20_MalformedExprFailsApply ==
    [][\A a \in Admins :
          (/\ admin[a].pc = "idle"
           /\ admin'[a] # admin[a]
           /\ HasMalformedExpr(admin'[a].policy[1])) =>
              /\ ~compile_all(admin'[a].policy[1].rules).ok
              /\ admin'[a].pc = "idle"
              /\ ~admin'[a].ret[1].ok
              /\ StoreState' = StoreState]_vars

\* a file that is there and is not the text of a policy document
Malformed(file) ==
    /\ file.kind # "missing"
    /\ file.kind # "document" \/ ~from_str(file).ok

\* a policy document with a rule that does not compile
HasNonCompilingRule(file) ==
    /\ file.kind = "document"
    /\ from_str(file).ok
    /\ ~compile_all(from_str(file).val.rules).ok

\* C21: load on a missing file succeeds with no rules and the default pii and
\* semantic config; load on a file that exists and is malformed, or that has
\* a rule that does not compile, fails and constructs no store; load leaves
\* the file as it is.
C21_LoadMissingOrMalformed ==
    [][(calls = 0 /\ calls' = 1) =>
          /\ disk' = disk
          /\ disk.kind = "missing" =>
                /\ applied' # {}
                /\ rules' = <<>>
                /\ compiled' = <<>>
                /\ pii' = PiiConfigDefault
                /\ semantic_cfg' = SemanticConfigDefault
          /\ (Malformed(disk) \/ HasNonCompilingRule(disk)) =>
                /\ applied' = {}
                /\ UNCHANGED inner]_vars

\* the positions of apply_policy between `self.inner.write().await` and its
\* return
UnderWriteGuard ==
    {"rules", "pii", "compiled", "semantic_cfg", "semantic", "create_dir", "write"}

\* C22: apply_policy holds the write lock exactly at the positions after the
\* compilation that succeeded, where it swaps the in-memory policy and writes
\* the file, up to its return; no eval handler is among the holders of a
\* read guard, and an eval that has its clone of the compiled rules, or of the
\* PII config too, can take its next step whether or not a writer holds the
\* lock.
C22_LockDiscipline ==
    /\ \A a \in Admins :
          /\ writer = Some(a) <=> admin[a].pc \in UnderWriteGuard
          /\ writer = Some(a) =>
                /\ admin[a].compiled # None
                /\ compile_all(admin[a].policy[1].rules) = Ok(admin[a].compiled[1])
    /\ readers \cap Evals = {}
    /\ \A e \in Evals :
          /\ evaler[e].pc = "match" => ENABLED EvalMatch(e)
          /\ evaler[e].pc = "respond" => ENABLED EvalRespond(e)

\* an eval handler holds its clones of the compiled rules and of the PII
\* config while an apply that has swapped the rules holds the write lock
C22_Witness ==
    \E e \in Evals : \E a \in Admins :
        /\ evaler[e].pc = "respond"
        /\ writer = Some(a)
        /\ admin[a].pc = "write"
        /\ evaler[e].pii_cfg[1] # pii

\* pii_should_run of the request handler e has answered
StageRuns(e) ==
    /\ evaler[e].pii_cfg[1].enabled
    /\ applies(evaler[e].pii_cfg[1].applies_to, evaler[e].req[1].kind)
    /\ evaler[e].pii_cfg[1].mode = "Redact"

\* C23: an allow response has an output_text if and only if the PII stage is
\* enabled, applies to the kind of the request and is in mode redact, and a
\* finding of an enabled detector remains; a response of a stage that did not
\* run, or of a config with every detector off, has no output_text and no
\* pii list.
C23_OutputTextIffStageFound ==
    \A e \in Evals :
        (/\ evaler[e].resp # None
         /\ evaler[e].resp[1].status = 200
         /\ evaler[e].pii_cfg # None) =>
            /\ evaler[e].resp[1].action = "Allow"
            /\ evaler[e].resp[1].output_text # None
                  <=> (StageRuns(e) /\ Emitted(e) # <<>>)
            /\ ~StageRuns(e) => evaler[e].resp[1].pii = None
            /\ evaler[e].pii_cfg[1].detectors = PiiDetectorsDefault =>
                  /\ evaler[e].resp[1].output_text = None
                  /\ evaler[e].resp[1].pii = None

\* a text with a finding of an enabled detector has been answered under a
\* config in mode off: the response has no output_text
C23_Witness ==
    \E e \in Evals :
        /\ evaler[e].resp # None
        /\ evaler[e].resp[1].status = 200
        /\ evaler[e].pii_cfg # None
        /\ evaler[e].pii_cfg[1].enabled
        /\ evaler[e].pii_cfg[1].mode = "Off"
        /\ applies(evaler[e].pii_cfg[1].applies_to, evaler[e].req[1].kind)
        /\ Emitted(e) # <<>>
        /\ evaler[e].resp[1].output_text = None

\* C24: whatever n-gram range the policy configures, the text of a compiled
\* example, evaluated as the input of a kind the stage applies to, is matched:
\* its score is the maximum (the cosine 1) and reaches the threshold.
C24_ExampleMatchesItself ==
    (applied # {} /\ semantic.enabled) =>
        \A c \in 1..Len(semantic.cases) :
            \A x \in 1..Len(semantic.cases[c].examples) :
                \A kind \in {"Prompt", "Response"} :
                    applies(semantic.applies_to, kind) =>
                        LET r == evaluate(semantic, kind,
                                          semantic.cases[c].examples[x].text)
                        IN  /\ r # None
                            /\ r[1].score.num = r[1].score.den

\* the call of admin a has returned Ok
AppliedOk(a) ==
    /\ admin[a].pc = "idle"
    /\ admin[a].ret # None
    /\ admin[a].ret[1].ok

\* the call of x took the write lock after the call of y had returned: the
\* store x found under the lock held the policy of y
LockedAfter(x, y) == admin[x].before[1].policy = admin[y].policy[1]

\* C25: once the calls of all admin handlers have returned Ok, the file is
\* the document of the in-memory policy, the in-memory policy is the policy
\* of one of the calls, and it is the policy (with the rules compiled from
\* it) of the call that took the write lock last.
C25_AppliesSerialized ==
    (\A a \in Admins : AppliedOk(a)) =>
        /\ disk = to_string(ActivePolicy)
        /\ \E x \in Admins : ActivePolicy = admin[x].policy[1]
        /\ \A x \in Admins : \A y \in Admins \ {x} :
              LockedAfter(x, y) =>
                  /\ ActivePolicy = admin[x].policy[1]
                  /\ compiled = admin[x].compiled[1]
                  /\ semantic = admin[x].semantic[1]
                  /\ disk = to_string(admin[x].policy[1])

\* two calls with different policies have returned Ok, one after the other
\* under the lock, and the store and the file hold the policy of the later
C25_Witness ==
    \E x \in Admins : \E y \in Admins \ {x} :
        /\ AppliedOk(x)
        /\ AppliedOk(y)
        /\ admin[x].policy # admin[y].policy
        /\ LockedAfter(x, y)
        /\ ActivePolicy = admin[x].policy[1]
        /\ disk = to_string(admin[x].policy[1])

====
